---- MODULE Spec2Model ----
(***************************************************************************)
(* Streaming proxy of StreamBot: the IntelligentClientAllocator            *)
(* (allocation/intelligent_allocator.py), the chunk engine                 *)
(* (utils/utils.py, utils/custom_dl.py, web/web.py stream_file_chunks),    *)
(* the Range parser and the /dl route (web/web.py).                        *)
(*                                                                         *)
(* Sizes are scaled: one model byte stands for a block of real bytes, so   *)
(* CHUNK_SIZE, the small-file threshold and the 2 GB limit keep their      *)
(* order (CHUNK_SIZE < threshold < limit) with small values.               *)
(* Time is an integer clock `now` (time.time()).                           *)
(***************************************************************************)
EXTENDS Integers, Sequences, FiniteSets, TLC

\* ------------------------------------------------------------------ bounds
NumClients == 2          \* connections in client_manager.all_clients
NumTasks == 2            \* distinct task ids used by direct allocator calls
MaxTime == 1             \* the clock stops advancing here
MaxFloodWait == 1        \* largest FloodWait.value
MaxFileSize == 11        \* largest file the chunk engine is run on
MaxChunkSize == 3        \* largest chunk_size passed to yield_file
NumRequests == 2         \* concurrent /dl requests
MaxFaults == 1           \* failures injected into one run of the route
MaxMessageId == 6        \* message ids whose links are requested
MaxLinkLen == 4          \* longest arbitrary text requested as a link
LongFloodWait == 2       \* largest FloodWait.value where two waits of a client overlap
NumTokens == 5             \* len(additional_tokens): worker tokens configured
RetryFaults == 3           \* failures injected into one request that retries
NumIps == 2                \* client addresses seen by the web rate limiter
NumLinks == 2              \* download links requested through the web rate limiter
LimiterMaxTime == 3        \* seconds the web rate limiter is watched for
MaxAdmitted == 3           \* admissions of one ip kept in the limiter's history
NumMonths == 2             \* calendar months the bandwidth counter is watched for
MaxUsage == 4              \* bytes recorded for one month
BandwidthMaxTime == 3      \* seconds the bandwidth counter is watched for
NumResolvers == 2          \* concurrent get_file_properties calls on one connection

\* ------------------------------------------------- program constants (scaled)
CHUNK_SIZE == 2                      \* web.py CHUNK_SIZE (1 MB)
small_file_threshold_bytes == 4      \* 300 MB
TelegramMaxFileSize == 10            \* validate_streaming_parameters: 2 GB
MaxValidChunkSize == 4               \* validate_streaming_parameters: 2 MB
MAX_RETRIES == 2                     \* web.py MAX_RETRIES
max_stream_retries == 2              \* _stream_file_to_response
max_retries == 3                     \* get_media_message
max_download_sessions == 2           \* WebRateLimiter: 15
main_window_seconds == 2             \* WebRateLimiter: 600
download_session_window_seconds == 2 \* WebRateLimiter: 60
MaxTrackedIps == 1                   \* _cleanup_internal: 2000
KeepTrackedIps == 1                  \* _cleanup_internal: 1000
MaxTrackedParts == 2                 \* _cleanup_internal: 5000
KeepTrackedParts == 1                \* _cleanup_internal: 2500
CacheSeconds == 1                    \* is_bandwidth_limit_exceeded: 60
UnitBytes == 2                       \* bytes in 0.001 GB, the step of gb_used
BandwidthLimit == 2                  \* a positive Var.BANDWIDTH_LIMIT_GB, in 0.001 GB

Clients == 1..NumClients
TaskIds == 1..NumTasks
NoClient == 0            \* None (no client)
NoTask == 0              \* key absent from client_tasks
NoFlood == -1            \* key absent from flood_wait_until
\* A task downloads one file: direct allocator calls for task t pass the size of
\* its file, small for odd t and large for even t.
TaskFileSize(t) ==
    IF t % 2 = 1 THEN small_file_threshold_bytes - 1 ELSE small_file_threshold_bytes

VARIABLES
    connected,               \* client.is_connected, per client
    now,                     \* time.time()
    client_states,           \* allocator: client_id -> status ("none": key absent)
    client_tasks,            \* allocator: client_id -> task id
    flood_wait_until,        \* allocator: client_id -> expiry timestamp
    small_preferred_index,
    large_preferred_index,
    last_client_count,       \* _last_client_count
    last,                    \* the acquire made by the last step, and what it returned
    chunk_req,               \* chunk engine: the call (engine, file, range, chunk size)
    chunk_run,               \* chunk engine: its locals, the reads issued, the bytes yielded
    req,                     \* /dl: per request, its locals, its response, its history
    files,                   \* log channel: message id -> file size, media present
    round_robin_index,       \* client_manager._round_robin_index
    faults,                  \* failures injected so far
    loop_time,               \* asyncio loop.time(), in seconds
    pool,                    \* ClientManager: its fields, and is_connected of its clients
    cached_file_ids,         \* ByteStreamer.cached_file_ids: pairs <<message id, FileId>>
    called,                  \* the ClientManager / ByteStreamer call made by the last step
    fault_limit,             \* failures that may be injected in all
    limiter,                 \* WebRateLimiter: its fields, and the sessions admitted
    bandwidth,               \* bandwidth.py: its globals, the month, the usage records
    resolves                 \* ByteStreamer.get_file_properties calls in flight

allocVars == <<client_states, client_tasks, flood_wait_until,
               small_preferred_index, large_preferred_index, last_client_count>>
allocSide == <<connected, now, allocVars, last>>
chunkVars == <<chunk_req, chunk_run>>
routeVars == <<req, files, round_robin_index, faults, loop_time>>
managerVars == <<pool, cached_file_ids, called>>
serviceVars == <<limiter, bandwidth, resolves>>
vars == <<allocSide, chunkVars, routeVars, managerVars, fault_limit, serviceVars>>
\* what a step of one part of the model leaves alone
notAlloc == <<chunkVars, routeVars, managerVars, fault_limit, serviceVars>>
notChunk == <<allocSide, routeVars, managerVars, fault_limit, serviceVars>>

\* ClientManager.all_clients: the primary first, then the workers
all_clients == [i \in 1..NumClients |-> i]

\* --------------------------------------------------------------- allocator
\* The allocator's fields as one value, so that a call is a function of it.
AllocState ==
    [client_states |-> client_states, client_tasks |-> client_tasks,
     flood_wait_until |-> flood_wait_until,
     small_preferred_index |-> small_preferred_index,
     large_preferred_index |-> large_preferred_index,
     last_client_count |-> last_client_count]

SetAlloc(a) ==
    /\ client_states' = a.client_states
    /\ client_tasks' = a.client_tasks
    /\ flood_wait_until' = a.flood_wait_until
    /\ small_preferred_index' = a.small_preferred_index
    /\ large_preferred_index' = a.large_preferred_index
    /\ last_client_count' = a.last_client_count

\* self.client_states.get(client_id, ClientStatus.IDLE)
StatusOf(a, c) == IF a.client_states[c] = "none" THEN "idle" ELSE a.client_states[c]

\* FileSize.SMALL if file_size < self.small_file_threshold_bytes else FileSize.LARGE
FileCategory(file_size) == IF file_size < small_file_threshold_bytes THEN "small" ELSE "large"

\* a mutant: the small group is floor((N - 2) / 2) clients
CalculateClientGroupsOf_NoParity(a, allc) ==
    LET total_clients == Len(allc)
        a1 == IF total_clients # a.last_client_count
              THEN [a EXCEPT !.small_preferred_index = 0,
                             !.large_preferred_index = 0,
                             !.last_client_count = total_clients]
              ELSE a
        small_group_size == (total_clients - 2) \div 2
    IN  IF total_clients = 0
        THEN [alloc |-> a1, err |-> "IndexError", small |-> <<>>, large |-> <<>>]
        ELSE IF total_clients = 1
        THEN [alloc |-> a1, err |-> "none", small |-> allc, large |-> allc]
        ELSE IF total_clients = 2
        THEN [alloc |-> a1, err |-> "none", small |-> <<allc[1]>>, large |-> <<allc[2]>>]
        ELSE [alloc |-> a1, err |-> "none",
              small |-> SubSeq(allc, 1, small_group_size),
              large |-> SubSeq(allc, small_group_size + 1, total_clients)]

\* a mutant: the indices are kept when the connected count changed
CalculateClientGroupsOf_NoReset(a, allc) ==
    LET total_clients == Len(allc)
        a1 == [a EXCEPT !.last_client_count = total_clients]
        small_group_size == ((total_clients - 2) + (total_clients % 2)) \div 2
    IN  IF total_clients = 0
        THEN [alloc |-> a1, err |-> "IndexError", small |-> <<>>, large |-> <<>>]
        ELSE IF total_clients = 1
        THEN [alloc |-> a1, err |-> "none", small |-> allc, large |-> allc]
        ELSE IF total_clients = 2
        THEN [alloc |-> a1, err |-> "none", small |-> <<allc[1]>>, large |-> <<allc[2]>>]
        ELSE [alloc |-> a1, err |-> "none",
              small |-> SubSeq(allc, 1, small_group_size),
              large |-> SubSeq(allc, small_group_size + 1, total_clients)]

\* _calculate_client_groups: the two groups, and the allocator with its indices
\* reset when the connected count changed. With no connected client the code
\* indexes all_clients[0] of an empty list: IndexError. allc is the list
\* [c for c in self.client_manager.all_clients if c and c.is_connected].
CalculateClientGroupsOf(a, allc) ==
    LET total_clients == Len(allc)
        a1 == IF total_clients # a.last_client_count
              THEN [a EXCEPT !.small_preferred_index = 0,
                             !.large_preferred_index = 0,
                             !.last_client_count = total_clients]
              ELSE a
        small_group_size == ((total_clients - 2) + (total_clients % 2)) \div 2
    IN  IF total_clients = 0
        THEN [alloc |-> a1, err |-> "IndexError", small |-> <<>>, large |-> <<>>]
        ELSE IF total_clients = 1
        THEN [alloc |-> a1, err |-> "none", small |-> allc, large |-> allc]
        ELSE IF total_clients = 2
        THEN [alloc |-> a1, err |-> "none", small |-> <<allc[1]>>, large |-> <<allc[2]>>]
        ELSE [alloc |-> a1, err |-> "none",
              small |-> SubSeq(allc, 1, small_group_size),
              large |-> SubSeq(allc, small_group_size + 1, total_clients)]

CalculateClientGroups(a) ==
    CalculateClientGroupsOf(a, SelectSeq(all_clients, LAMBDA c : connected[c]))

\* _is_client_available, its side effect: an expired flood wait is dropped and
\* the status set to IDLE.
FloodWaitExpired(a, c) ==
    a.flood_wait_until[c] # NoFlood /\ ~(now < a.flood_wait_until[c])

IsClientAvailableEffect(a, c) ==
    IF connected[c] /\ FloodWaitExpired(a, c)
    THEN [a EXCEPT !.flood_wait_until[c] = NoFlood, !.client_states[c] = "idle"]
    ELSE a

\* a mutant: the status is not looked at
IsClientAvailable_NoStatusCheck(a, c) ==
    /\ connected[c]
    /\ ~(a.flood_wait_until[c] # NoFlood /\ now < a.flood_wait_until[c])

\* _is_client_available, its result
IsClientAvailable(a, c) ==
    /\ connected[c]
    /\ ~(a.flood_wait_until[c] # NoFlood /\ now < a.flood_wait_until[c])
    /\ StatusOf(IsClientAvailableEffect(a, c), c) = "idle"

\* _get_available_clients_from_group: the available members in group order,
\* and the allocator after the checks (each check touches its own client only)
GetAvailableClientsFromGroup(a, group) ==
    LET members == {group[i] : i \in 1..Len(group)}
        touched == {c \in members : connected[c] /\ FloodWaitExpired(a, c)}
        a1 == [a EXCEPT
                 !.flood_wait_until = [c \in Clients |->
                     IF c \in touched THEN NoFlood ELSE a.flood_wait_until[c]],
                 !.client_states = [c \in Clients |->
                     IF c \in touched THEN "idle" ELSE a.client_states[c]]]
    IN  [alloc |-> a1,
         avail |-> SelectSeq(group, LAMBDA c : IsClientAvailable(a, c))]

\* _select_client_round_robin (0-based indices, as in the code)
SelectClientRoundRobin(a, available_clients, is_small_group) ==
    IF Len(available_clients) = 0
    THEN [alloc |-> a, selected |-> NoClient, index |-> 0]
    ELSE IF is_small_group
    THEN LET i == IF a.small_preferred_index >= Len(available_clients)
                  THEN 0 ELSE a.small_preferred_index
         IN  [alloc |-> [a EXCEPT !.small_preferred_index = (i + 1) % Len(available_clients)],
              selected |-> available_clients[i + 1], index |-> i]
    ELSE LET i == IF a.large_preferred_index >= Len(available_clients)
                  THEN 0 ELSE a.large_preferred_index
         IN  [alloc |-> [a EXCEPT !.large_preferred_index = (i + 1) % Len(available_clients)],
              selected |-> available_clients[i + 1], index |-> i]

\* a mutant: a small file is served by the small-preferred group only
AcquireClientForDownload_NoOverflow(a, file_size, task_id) ==
    LET g == CalculateClientGroups(a)
        avs == GetAvailableClientsFromGroup(g.alloc, g.small)
        avl_direct == GetAvailableClientsFromGroup(g.alloc, g.large)
        pick == IF FileCategory(file_size) = "small"
                THEN SelectClientRoundRobin(avs.alloc, avs.avail, TRUE)
                ELSE SelectClientRoundRobin(avl_direct.alloc, avl_direct.avail, FALSE)
    IN  IF g.err # "none"
        THEN [alloc |-> g.alloc, ret |-> NoClient, err |-> g.err]
        ELSE IF pick.selected # NoClient
        THEN [alloc |-> [pick.alloc EXCEPT
                           !.client_states[pick.selected] = "busy",
                           !.client_tasks[pick.selected] = task_id],
              ret |-> pick.selected, err |-> "none"]
        ELSE [alloc |-> pick.alloc, ret |-> NoClient, err |-> "NoClientsAvailableError"]

\* acquire_client_for_download: [alloc, ret, err]; err is "none",
\* "NoClientsAvailableError" or "IndexError"
AcquireClientForDownload(a, file_size, task_id) ==
    LET g == CalculateClientGroups(a)
        avs == GetAvailableClientsFromGroup(g.alloc, g.small)
        avl_after_small == GetAvailableClientsFromGroup(avs.alloc, g.large)
        avl_direct == GetAvailableClientsFromGroup(g.alloc, g.large)
        pick == IF FileCategory(file_size) = "small"
                THEN IF Len(avs.avail) > 0
                     THEN SelectClientRoundRobin(avs.alloc, avs.avail, TRUE)
                     ELSE SelectClientRoundRobin(avl_after_small.alloc,
                                                 avl_after_small.avail, FALSE)
                ELSE SelectClientRoundRobin(avl_direct.alloc, avl_direct.avail, FALSE)
    IN  IF g.err # "none"
        THEN [alloc |-> g.alloc, ret |-> NoClient, err |-> g.err]
        ELSE IF pick.selected # NoClient
        THEN [alloc |-> [pick.alloc EXCEPT
                           !.client_states[pick.selected] = "busy",
                           !.client_tasks[pick.selected] = task_id],
              ret |-> pick.selected, err |-> "none"]
        ELSE [alloc |-> pick.alloc, ret |-> NoClient, err |-> "NoClientsAvailableError"]

\* handle_flood_wait_retry: [alloc, ret, err]; ret is the alternative or NoClient
HandleFloodWaitRetry(a, failed_client, flood_wait_seconds, file_size, task_id) ==
    LET a0 == [a EXCEPT !.client_states[failed_client] = "flood_wait",
                        !.flood_wait_until[failed_client] = now + flood_wait_seconds,
                        !.client_tasks[failed_client] = NoTask]
        g == CalculateClientGroups(a0)
        small == SelectSeq(g.small, LAMBDA c : c # failed_client)
        large == SelectSeq(g.large, LAMBDA c : c # failed_client)
        avs == GetAvailableClientsFromGroup(g.alloc, small)
        avl_after_small == GetAvailableClientsFromGroup(avs.alloc, large)
        avl_direct == GetAvailableClientsFromGroup(g.alloc, large)
        res == IF FileCategory(file_size) = "small"
               THEN IF Len(avs.avail) > 0
                    THEN [alloc |-> avs.alloc, alt |-> avs.avail[1]]
                    ELSE IF Len(avl_after_small.avail) > 0
                    THEN [alloc |-> avl_after_small.alloc, alt |-> avl_after_small.avail[1]]
                    ELSE [alloc |-> avl_after_small.alloc, alt |-> NoClient]
               ELSE IF Len(avl_direct.avail) > 0
                    THEN [alloc |-> avl_direct.alloc, alt |-> avl_direct.avail[1]]
                    ELSE [alloc |-> avl_direct.alloc, alt |-> NoClient]
    IN  IF g.err # "none"
        THEN [alloc |-> g.alloc, ret |-> NoClient, err |-> g.err]
        ELSE IF res.alt # NoClient
        THEN [alloc |-> [res.alloc EXCEPT !.client_states[res.alt] = "busy",
                                          !.client_tasks[res.alt] = task_id],
              ret |-> res.alt, err |-> "none"]
        ELSE [alloc |-> res.alloc, ret |-> NoClient, err |-> "none"]

\* a mutant: the task of a matching release stays recorded
ReleaseClient_KeepsTask(a, client, task_id) ==
    IF client = NoClient THEN a
    ELSE IF a.client_tasks[client] = task_id \/ a.client_tasks[client] = NoTask
    THEN [a EXCEPT !.client_states[client] = "idle"]
    ELSE a

\* a mutant: the task id is not compared
ReleaseClient_AnyTask(a, client, task_id) ==
    IF client = NoClient THEN a
    ELSE [a EXCEPT !.client_tasks[client] = NoTask, !.client_states[client] = "idle"]

\* a mutant: a release makes the released client the next small-group pick
ReleaseClient_RewindsIndex(a, client, task_id) ==
    IF client = NoClient THEN a
    ELSE IF a.client_tasks[client] = task_id
    THEN [a EXCEPT !.client_tasks[client] = NoTask, !.client_states[client] = "idle",
                   !.small_preferred_index = client - 1]
    ELSE IF a.client_tasks[client] = NoTask
    THEN [a EXCEPT !.client_states[client] = "idle"]
    ELSE a

\* release_client
ReleaseClient(a, client, task_id) ==
    IF client = NoClient THEN a
    ELSE IF a.client_tasks[client] = task_id
    THEN [a EXCEPT !.client_tasks[client] = NoTask, !.client_states[client] = "idle"]
    ELSE IF a.client_tasks[client] = NoTask
    THEN [a EXCEPT !.client_states[client] = "idle"]
    ELSE a

\* cleanup_stale_states
\* a mutant: the sweep leaves the task entries of stale clients
CleanupStaleStates_KeepsTasks(a) ==
    LET stale == {c \in Clients : a.client_states[c] # "none" /\ ~connected[c]}
        a1 == [a EXCEPT
                 !.client_states = [c \in Clients |->
                     IF c \in stale THEN "none" ELSE a.client_states[c]],
                 !.flood_wait_until = [c \in Clients |->
                     IF c \in stale THEN NoFlood ELSE a.flood_wait_until[c]]]
        expired == {c \in Clients : a1.flood_wait_until[c] # NoFlood
                                    /\ now >= a1.flood_wait_until[c]}
    IN  [a1 EXCEPT
           !.flood_wait_until = [c \in Clients |->
               IF c \in expired THEN NoFlood ELSE a1.flood_wait_until[c]],
           !.client_states = [c \in Clients |->
               IF c \in expired THEN "idle" ELSE a1.client_states[c]]]

CleanupStaleStates(a) ==
    LET stale == {c \in Clients : a.client_states[c] # "none" /\ ~connected[c]}
        a1 == [a EXCEPT
                 !.client_states = [c \in Clients |->
                     IF c \in stale THEN "none" ELSE a.client_states[c]],
                 !.client_tasks = [c \in Clients |->
                     IF c \in stale THEN NoTask ELSE a.client_tasks[c]],
                 !.flood_wait_until = [c \in Clients |->
                     IF c \in stale THEN NoFlood ELSE a.flood_wait_until[c]]]
        expired == {c \in Clients : a1.flood_wait_until[c] # NoFlood
                                    /\ now >= a1.flood_wait_until[c]}
    IN  [a1 EXCEPT
           !.flood_wait_until = [c \in Clients |->
               IF c \in expired THEN NoFlood ELSE a1.flood_wait_until[c]],
           !.client_states = [c \in Clients |->
               IF c \in expired THEN "idle" ELSE a1.client_states[c]]]

\* `last`: what the acquire made by the last step returned ("acquire", or
\* "acquire:" and the error raised), the client returned and the status that
\* client had when the call was made; NoCall after any other step
NoCall == [op |-> "none", ret |-> NoClient, was |-> "none"]
CallOp(name, err) == IF err = "none" THEN name ELSE name \o ":" \o err

AllocInit ==
    /\ client_states = [c \in Clients |-> "none"]
    /\ client_tasks = [c \in Clients |-> NoTask]
    /\ flood_wait_until = [c \in Clients |-> NoFlood]
    /\ small_preferred_index = 0
    /\ large_preferred_index = 0
    /\ last_client_count = 0

\* ---------------------------------------------------------- client manager
\* The clients a ClientManager can create: the primary (bot token) and one
\* worker per additional token, worker i (0-based) having id i + 2. A client's
\* me.id and me.username are its id.
PrimaryId == 1
WorkerOf(i) == i + 2
PoolWorkers == {WorkerOf(i) : i \in 0..(NumTokens - 1)}
PoolClients == {PrimaryId} \cup PoolWorkers

\* dict[key] = value
DictPut(d, key, value) == {e \in d : e[1] # key} \cup {<<key, value>>}

\* ClientManager.__init__
PoolNew ==
    [primary_client |-> NoClient,
     worker_clients |-> <<>>,
     all_clients |-> <<>>,
     streamers |-> {},
     round_robin_index |-> 0,
     is_connected |-> [c \in PoolClients |-> FALSE]]

\* `called`: the call of the last step, the client it returned, the error it
\* raised; for the selections the index used and the length of the list it was
\* used on, and the clients returned by the get_streaming_client calls made
\* in a row up to this one (`run`); for an acquire the two groups it computed
\* and the index it found stored for the list it picked from (`stored`); for
\* stop_clients the number of clients it stopped (`len`) and whether the step
\* before was a stop_clients too (`again`); for start_clients the outcomes of
\* the client starts it ran into (`input`); for get_file_properties the message
\* id (`arg`), whether it was cached when the call was made (`hit`), the
\* get_messages calls made (`lookups`) and the FileId returned (`file_id`).
NoCalled == [op |-> "none", ret |-> NoClient, err |-> "none", index |-> 0, len |-> 0,
             run |-> <<>>, arg |-> NoClient, small |-> <<>>, large |-> <<>>, stored |-> 0,
             again |-> FALSE,
             input |-> [primary |-> "none", started |-> {}, lost |-> {}],
             hit |-> FALSE, lookups |-> 0, file_id |-> [message_id |-> 0, file_size |-> 0]]

ManagerIdle ==
    /\ pool = PoolNew
    /\ cached_file_ids = {}
    /\ called = NoCalled

\* a mutant: a worker is registered whether or not it is still connected
StartClients_RegistersLost(p, primary, started, lost) ==
    LET p1 == [p EXCEPT !.primary_client = PrimaryId]
        p2 == [p1 EXCEPT !.is_connected[PrimaryId] = TRUE,
                         !.all_clients = Append(@, PrimaryId)]
        p3 == [p2 EXCEPT !.streamers =
                   DictPut(@, <<"primary", 0, PrimaryId>>, PrimaryId)]
        up == [c \in PoolClients |->
                  IF c \in started THEN c \notin lost ELSE p3.is_connected[c]]
        tokens == [i \in 1..NumTokens |-> WorkerOf(i - 1)]
        registered == SelectSeq(tokens, LAMBDA c : c \in started)
        keys == {<<<<"worker", c - 2, c>>, c>> : c \in started}
    IN  IF primary = "start" THEN [pool |-> p1, err |-> "Exception"]
        ELSE IF primary = "get_me" THEN [pool |-> p2, err |-> "Exception"]
        ELSE [pool |-> [p3 EXCEPT
                          !.is_connected = up,
                          !.worker_clients = @ \o registered,
                          !.all_clients = @ \o registered,
                          !.streamers = {e \in @ : \A k \in keys : k[1] # e[1]} \cup keys],
              err |-> "none"]

\* start_clients. primary: "ok", "start" (primary_client.start() raises) or
\* "get_me" (get_me() raises); started: the workers whose
\* _start_single_worker returned a client; lost: those of them no longer
\* connected when the results are processed. [pool, err]
StartClients(p, primary, started, lost) ==
    LET p1 == [p EXCEPT !.primary_client = PrimaryId]
        p2 == [p1 EXCEPT !.is_connected[PrimaryId] = TRUE,
                         !.all_clients = Append(@, PrimaryId)]
        p3 == [p2 EXCEPT !.streamers =
                   DictPut(@, <<"primary", 0, PrimaryId>>, PrimaryId)]
        up == [c \in PoolClients |->
                  IF c \in started THEN c \notin lost ELSE p3.is_connected[c]]
        tokens == [i \in 1..NumTokens |-> WorkerOf(i - 1)]
        registered == SelectSeq(tokens, LAMBDA c : c \in started /\ up[c])
        keys == {<<<<"worker", c - 2, c>>, c>> : c \in {w \in started : up[w]}}
    IN  IF primary = "start" THEN [pool |-> p1, err |-> "Exception"]
        ELSE IF primary = "get_me" THEN [pool |-> p2, err |-> "Exception"]
        ELSE [pool |-> [p3 EXCEPT
                          !.is_connected = up,
                          !.worker_clients = @ \o registered,
                          !.all_clients = @ \o registered,
                          !.streamers = {e \in @ : \A k \in keys : k[1] # e[1]} \cup keys],
              err |-> "none"]

\* a mutant: the ByteStreamer instances are kept
StopClients_KeepsStreamers(p, failing) ==
    [pool |-> [p EXCEPT !.all_clients = <<>>,
                        !.worker_clients = <<>>,
                        !.primary_client = NoClient,
                        !.is_connected = [c \in PoolClients |-> FALSE]],
     err |-> "none", stopped |-> 0]

\* stop_clients: stop() of every connected client of all_clients; `failing`
\* are the clients whose stop() raises, the exceptions being collected by
\* gather(return_exceptions=True) and logged; then every reference is
\* dropped. The clients dropped are no longer observable: they are written
\* disconnected. [pool, err, stopped]; stopped counts the stop() calls made.
StopClients(p, failing) ==
    LET stop_tasks == SelectSeq(p.all_clients, LAMBDA c : p.is_connected[c])
    IN  [pool |-> [p EXCEPT !.all_clients = <<>>,
                            !.worker_clients = <<>>,
                            !.streamers = {},
                            !.primary_client = NoClient,
                            !.is_connected = [c \in PoolClients |-> FALSE]],
         err |-> "none", stopped |-> Len(stop_tasks)]

\* a mutant: the index is advanced without the modulo
GetStreamingClient_NoModulo(p) ==
    LET active_workers == SelectSeq(p.worker_clients, LAMBDA c : p.is_connected[c])
        i == IF p.round_robin_index + 1 < Len(active_workers)
             THEN p.round_robin_index + 1 ELSE Len(active_workers) - 1
    IN  IF Len(active_workers) > 0
        THEN [pool |-> [p EXCEPT !.round_robin_index = i],
              ret |-> active_workers[i + 1], err |-> "none",
              index |-> i, len |-> Len(active_workers)]
        ELSE IF p.primary_client # NoClient /\ p.is_connected[p.primary_client]
        THEN [pool |-> p, ret |-> p.primary_client, err |-> "none", index |-> 0, len |-> 0]
        ELSE [pool |-> p, ret |-> NoClient, err |-> "NoClientsAvailableError",
              index |-> 0, len |-> 0]

\* get_streaming_client: [pool, ret, err, index, len]
GetStreamingClient(p) ==
    LET active_workers == SelectSeq(p.worker_clients, LAMBDA c : p.is_connected[c])
        i == (p.round_robin_index + 1) % Len(active_workers)
    IN  IF Len(active_workers) > 0
        THEN [pool |-> [p EXCEPT !.round_robin_index = i],
              ret |-> active_workers[i + 1], err |-> "none",
              index |-> i, len |-> Len(active_workers)]
        ELSE IF p.primary_client # NoClient /\ p.is_connected[p.primary_client]
        THEN [pool |-> p, ret |-> p.primary_client, err |-> "none", index |-> 0, len |-> 0]
        ELSE [pool |-> p, ret |-> NoClient, err |-> "NoClientsAvailableError",
              index |-> 0, len |-> 0]

\* a mutant: the excluded client is not filtered out of the workers
GetAlternativeStreamingClient_NoFilter(p, exclude_client) ==
    LET r == GetStreamingClient(p)
    IN  [pool |-> r.pool, ret |-> r.ret, index |-> r.index, len |-> r.len]

\* get_alternative_streaming_client: [pool, ret, index, len]; ret NoClient is None
GetAlternativeStreamingClient(p, exclude_client) ==
    LET active_workers == SelectSeq(p.worker_clients,
                              LAMBDA c : p.is_connected[c] /\ c # exclude_client)
        i == (p.round_robin_index + 1) % Len(active_workers)
    IN  IF Len(active_workers) > 0
        THEN [pool |-> [p EXCEPT !.round_robin_index = i],
              ret |-> active_workers[i + 1], index |-> i, len |-> Len(active_workers)]
        ELSE IF /\ p.primary_client # NoClient
                /\ p.is_connected[p.primary_client]
                /\ p.primary_client # exclude_client
        THEN [pool |-> p, ret |-> p.primary_client, index |-> 0, len |-> 0]
        ELSE [pool |-> p, ret |-> NoClient, index |-> 0, len |-> 0]

\* ------------------------------------------------------------ chunk engine
Min(a, b) == IF a < b THEN a ELSE b

\* Python slices of a bytes value: s[a:b], s[a:], s[:b] (a, b >= 0)
Slice(s, a, b) == SubSeq(s, a + 1, Min(b, Len(s)))
SliceFrom(s, a) == SubSeq(s, a + 1, Len(s))
SliceTo(s, b) == SubSeq(s, 1, Min(b, Len(s)))

\* The source file: the byte at position i is written i, so that equal byte
\* sequences are equal position sequences.
SourceBytes(lo, hi) == [k \in 1..(hi - lo + 1) |-> lo + k - 1]

\* The remote chunk read (upload.GetFile / stream_media): up to `limit` bytes at
\* `offset`, short or empty at the end of the file.
ReadChunk(file_size, offset, limit) ==
    IF offset >= file_size THEN <<>>
    ELSE SourceBytes(offset, Min(offset + limit, file_size) - 1)

\* validate_streaming_parameters
ValidateStreamingParameters(from_bytes, until_bytes, file_size, chunk_size) ==
    /\ ~(from_bytes < 0 \/ until_bytes < 0)
    /\ ~(from_bytes > until_bytes)
    /\ ~(until_bytes >= file_size)
    /\ ~(file_size > TelegramMaxFileSize)
    /\ ~(until_bytes - from_bytes + 1 <= 0)
    /\ ~(chunk_size <= 0 \/ chunk_size > MaxValidChunkSize)

\* a mutant: the offset is not aligned down
CalculateChunkParameters_Unaligned(from_bytes, until_bytes, chunk_size) ==
    [offset |-> from_bytes,
     first_part_cut |-> 0,
     last_part_cut |-> (until_bytes % chunk_size) + 1,
     part_count |-> ((until_bytes + chunk_size) \div chunk_size)
                    - (from_bytes \div chunk_size)]

\* a mutant: the last cut is one byte short
CalculateChunkParameters_ShortLastCut(from_bytes, until_bytes, chunk_size) ==
    LET offset == from_bytes - (from_bytes % chunk_size)
    IN  [offset |-> offset,
         first_part_cut |-> from_bytes - offset,
         last_part_cut |-> until_bytes % chunk_size,
         part_count |-> ((until_bytes + chunk_size) \div chunk_size)
                        - (offset \div chunk_size)]

\* calculate_chunk_parameters; math.ceil((until_bytes + 1) / chunk_size) is
\* (until_bytes + chunk_size) \div chunk_size
CalculateChunkParameters(from_bytes, until_bytes, chunk_size) ==
    LET offset == from_bytes - (from_bytes % chunk_size)
    IN  [offset |-> offset,
         first_part_cut |-> from_bytes - offset,
         last_part_cut |-> (until_bytes % chunk_size) + 1,
         part_count |-> ((until_bytes + chunk_size) \div chunk_size)
                        - (offset \div chunk_size)]

\* the slice of one chunk that is yielded (yield_file) or written
\* (stream_file_chunks)
CutChunk(chunk, first_part_cut, last_part_cut, part_count, current_part) ==
    IF part_count = 1 THEN Slice(chunk, first_part_cut, last_part_cut)
    ELSE IF current_part = 1 THEN SliceFrom(chunk, first_part_cut)
    ELSE IF current_part = part_count THEN SliceTo(chunk, last_part_cut)
    ELSE chunk

\* ------------------------------------------------------ web rate limiter
\* WebRateLimiter. A deque of download_starts is a sequence of timestamps,
\* oldest first; an ip with no key has the empty sequence (a key is only left
\* with an empty deque inside a call). An (ip, encoded_id) key of
\* active_download_parts that is absent has NoExpiry. `admitted` is the
\* history: the times at which a request of the ip WatchedIp was admitted as a
\* new download session (the limiter treats every ip alike). `time` is
\* time.time(), `ret` the call made by the last step.
Ips == 1..NumIps
Links == 1..NumLinks
NoLink == 0                 \* encoded_id is None (the path did not match)
NoExpiry == -1
WatchedIp == 1
PartKeys == Ips \X Links

NoLimiterCall == [op |-> "none", ip |-> 0, encoded_id |-> NoLink, allowed |-> FALSE]

\* WebRateLimiter.__init__
LimiterNew ==
    [download_starts |-> [ip \in Ips |-> <<>>],
     active_download_parts |-> [k \in PartKeys |-> NoExpiry],
     last_cleanup_time |-> 0,
     time |-> 0,
     admitted |-> <<>>,
     ret |-> NoLimiterCall]

\* while deq and deq[0] < bound: deq.popleft()
RECURSIVE PopLeftWhileOlder(_, _)
PopLeftWhileOlder(deq, bound) ==
    IF Len(deq) > 0 /\ deq[1] < bound THEN PopLeftWhileOlder(Tail(deq), bound)
    ELSE deq

\* sorted(items, key)[:n] of a dict: the sets of n keys that can come first.
\* Keys with equal sort keys stand in insertion order, which the timestamps of
\* one second do not fix, so every order of them is allowed.
FirstSorted(keys, sortkey, n) ==
    {S \in SUBSET keys : /\ Cardinality(S) = n
                         /\ \A a \in S, b \in keys \ S : sortkey[a] <= sortkey[b]}

\* _cleanup_internal(current_time): the set of states it can leave
CleanupInternal(l, current_time) ==
    LET starts == [ip \in Ips |->
                      PopLeftWhileOlder(l.download_starts[ip],
                                        current_time - main_window_seconds * 2)]
        parts == [k \in PartKeys |->
                     IF l.active_download_parts[k] # NoExpiry
                        /\ l.active_download_parts[k] < current_time
                     THEN NoExpiry ELSE l.active_download_parts[k]]
        tracked_ips == {ip \in Ips : Len(starts[ip]) > 0}
        tracked_parts == {k \in PartKeys : parts[k] # NoExpiry}
        ip_drops == IF Cardinality(tracked_ips) > MaxTrackedIps
                    THEN FirstSorted(tracked_ips, [ip \in tracked_ips |-> starts[ip][1]],
                                     Cardinality(tracked_ips) - KeepTrackedIps)
                    ELSE {{}}
        part_drops == IF Cardinality(tracked_parts) > MaxTrackedParts
                      THEN FirstSorted(tracked_parts, parts,
                                       Cardinality(tracked_parts) - KeepTrackedParts)
                      ELSE {{}}
    IN  {[l EXCEPT
            !.download_starts = [ip \in Ips |-> IF ip \in di THEN <<>> ELSE starts[ip]],
            !.active_download_parts = [k \in PartKeys |->
                                          IF k \in dp THEN NoExpiry ELSE parts[k]]] :
         di \in ip_drops, dp \in part_drops}

\* is_allowed after its periodic cleanup: [lim, allowed, coalesced]
IsAllowedAfterCleanup(l, ip, encoded_id, current_time) ==
    LET key == <<ip, encoded_id>>
        active == encoded_id # NoLink /\ l.active_download_parts[key] # NoExpiry
        l1 == IF active THEN [l EXCEPT !.active_download_parts[key] = NoExpiry] ELSE l
        ip_downloads == PopLeftWhileOlder(l.download_starts[ip],
                                          current_time - main_window_seconds)
    IN  IF active /\ l.active_download_parts[key] > current_time
        THEN [lim |-> [l EXCEPT !.active_download_parts[key] =
                                    current_time + download_session_window_seconds],
              allowed |-> TRUE, coalesced |-> TRUE]
        ELSE IF Len(ip_downloads) < max_download_sessions
        THEN [lim |-> [l1 EXCEPT
                         !.download_starts[ip] = Append(ip_downloads, current_time),
                         !.active_download_parts =
                             IF encoded_id = NoLink THEN @
                             ELSE [@ EXCEPT ![key] =
                                      current_time + download_session_window_seconds],
                         !.admitted = IF encoded_id = NoLink \/ ip # WatchedIp THEN @
                                      ELSE Append(@, current_time)],
              allowed |-> TRUE, coalesced |-> FALSE]
        ELSE [lim |-> [l1 EXCEPT !.download_starts[ip] = ip_downloads],
              allowed |-> FALSE, coalesced |-> FALSE]

\* is_allowed(ip, encoded_id) at current_time: the set of [lim, allowed,
\* coalesced, cleaned] it can end with
IsAllowed(l, ip, encoded_id, current_time) ==
    LET cleans == current_time - l.last_cleanup_time > main_window_seconds
        ls == IF cleans
              THEN {[c EXCEPT !.last_cleanup_time = current_time] :
                        c \in CleanupInternal(l, current_time)}
              ELSE {l}
    IN  {[lim |-> IsAllowedAfterCleanup(l1, ip, encoded_id, current_time).lim,
          allowed |-> IsAllowedAfterCleanup(l1, ip, encoded_id, current_time).allowed,
          coalesced |-> IsAllowedAfterCleanup(l1, ip, encoded_id, current_time).coalesced,
          cleaned |-> cleans] : l1 \in ls}

\* ------------------------------------------------------ monthly bandwidth
\* utils/bandwidth.py. The module globals _bandwidth_limit_reached and
\* _last_bandwidth_check, the configured limit, the calendar month and clock
\* the calls read, and the bandwidth_usage collection: per month the bytes of
\* its record, NoRecord when there is none. `ret` is the call made by the last
\* step; its `n` alternates so that one more call is one more step.
Months == 1..NumMonths
NoRecord == -1
NoBandwidthCall == [op |-> "none", exceeded |-> FALSE, queried |-> FALSE, n |-> 0]

BandwidthNew(limit) ==
    [_bandwidth_limit_reached |-> FALSE,
     _last_bandwidth_check |-> 0,
     BANDWIDTH_LIMIT_GB |-> limit,
     month |-> 1,
     time |-> 1,
     records |-> [m \in Months |-> NoRecord],
     ret |-> NoBandwidthCall]

\* round(bytes_used / 1024**3, 3), in steps of 0.001 GB (round half to even)
GbUsed(bytes_used) ==
    LET q == bytes_used \div UnitBytes
        r == bytes_used % UnitBytes
    IN  IF 2 * r < UnitBytes THEN q
        ELSE IF 2 * r > UnitBytes THEN q + 1
        ELSE IF q % 2 = 0 THEN q ELSE q + 1

\* reset_bandwidth_status_cache
ResetBandwidthStatusCache(b) ==
    [b EXCEPT !._bandwidth_limit_reached = FALSE, !._last_bandwidth_check = 0]

\* get_current_bandwidth_usage: [bw, gb_used]
GetCurrentBandwidthUsage(b) ==
    IF b.records[b.month] = NoRecord
    THEN [bw |-> ResetBandwidthStatusCache([b EXCEPT !.records[b.month] = 0]),
          gb_used |-> GbUsed(0)]
    ELSE [bw |-> b, gb_used |-> GbUsed(b.records[b.month])]

\* add_bandwidth_usage(bytes_count): update_one with upsert
AddBandwidth(b, bytes_count) ==
    IF bytes_count <= 0 THEN b
    ELSE [b EXCEPT !.records[b.month] =
                       IF @ = NoRecord THEN bytes_count ELSE @ + bytes_count]

\* is_bandwidth_limit_exceeded: [bw, exceeded, queried]
IsBandwidthLimitExceeded(b) ==
    IF b.BANDWIDTH_LIMIT_GB <= 0
    THEN [bw |-> [b EXCEPT !._bandwidth_limit_reached = FALSE],
          exceeded |-> FALSE, queried |-> FALSE]
    ELSE IF b._bandwidth_limit_reached
    THEN [bw |-> b, exceeded |-> TRUE, queried |-> FALSE]
    ELSE IF b.time - b._last_bandwidth_check < CacheSeconds /\ b._last_bandwidth_check > 0
    THEN [bw |-> b, exceeded |-> b._bandwidth_limit_reached, queried |-> FALSE]
    ELSE LET usage == GetCurrentBandwidthUsage(b)
             limit_exceeded == usage.gb_used >= b.BANDWIDTH_LIMIT_GB
         IN  [bw |-> [usage.bw EXCEPT !._bandwidth_limit_reached = limit_exceeded,
                                      !._last_bandwidth_check = b.time],
              exceeded |-> limit_exceeded, queried |-> TRUE]

\* ------------------------------------------- concurrent resolves of a file
\* One get_file_properties call in flight on a ByteStreamer: where it is, the
\* message it resolves, what it returned or raised, and whether clean_cache
\* cleared the dict while the call waited for get_messages.
Resolvers == 1..NumResolvers
NoResolve == [pc |-> "idle", message_id |-> 0, file_id |-> NoCalled.file_id,
              err |-> "none", cleared |-> FALSE]

\* no web rate limiter call, no bandwidth call, no resolve in flight
ServiceIdle ==
    /\ limiter = LimiterNew
    /\ bandwidth = BandwidthNew(0)
    /\ resolves = [k \in Resolvers |-> NoResolve]

\* no /dl request
RouteIdle ==
    /\ req = <<>>
    /\ files = <<>>
    /\ round_robin_index = 0
    /\ faults = 0
    /\ fault_limit = MaxFaults
    /\ ServiceIdle
    /\ loop_time = 0

Engines == {"yield_file", "stream_file_chunks"}

NoChunkReq == [engine |-> "none", file_size |-> 0, from_bytes |-> 0,
               until_bytes |-> 0, chunk_size |-> 0]
NoChunkRun == [pc |-> "off", offset |-> 0, first_part_cut |-> 0, last_part_cut |-> 0,
               part_count |-> 0, current_part |-> 0, chunk |-> <<>>,
               reads |-> <<>>, out |-> <<>>]
ChunkIdle == chunk_req = NoChunkReq /\ chunk_run = NoChunkRun

\* The calls: every range of every file, yield_file with every chunk size,
\* stream_file_chunks with CHUNK_SIZE.
ChunkRequests ==
    {[engine |-> e, file_size |-> fs, from_bytes |-> f, until_bytes |-> u,
      chunk_size |-> cs] :
        e \in Engines, fs \in 1..MaxFileSize, f \in 0..(MaxFileSize - 1),
        u \in 0..(MaxFileSize - 1), cs \in 1..MaxChunkSize}

InitChunk ==
    /\ chunk_req \in {q \in ChunkRequests :
           /\ q.from_bytes <= q.until_bytes
           /\ q.until_bytes < q.file_size
           /\ q.engine = "stream_file_chunks" => q.chunk_size = CHUNK_SIZE}
    /\ chunk_run = [NoChunkRun EXCEPT !.pc = "start"]
    /\ connected = [c \in Clients |-> TRUE]
    /\ now = 0
    /\ AllocInit
    /\ last = NoCall
    /\ RouteIdle
    /\ ManagerIdle

\* The call starts. stream_file_chunks validates its parameters (ValueError)
\* and computes the plan; yield_file is handed the plan by its caller
\* (streaming.py computes the same four values).
ChunkStart ==
    /\ chunk_run.pc = "start"
    /\ LET plan == CalculateChunkParameters(chunk_req.from_bytes, chunk_req.until_bytes,
                                            chunk_req.chunk_size)
           valid == ValidateStreamingParameters(chunk_req.from_bytes,
                        chunk_req.until_bytes, chunk_req.file_size, chunk_req.chunk_size)
       IN  IF chunk_req.engine = "stream_file_chunks" /\ ~valid
           THEN chunk_run' = [chunk_run EXCEPT !.pc = "ValueError"]
           ELSE chunk_run' = [chunk_run EXCEPT
                    !.pc = "read", !.offset = plan.offset,
                    !.first_part_cut = plan.first_part_cut,
                    !.last_part_cut = plan.last_part_cut,
                    !.part_count = plan.part_count, !.current_part = 1]
    /\ UNCHANGED <<chunk_req, notChunk>>

\* one read of chunk_size bytes at the current offset
ChunkRead ==
    /\ chunk_run.pc = "read"
    /\ chunk_run' = [chunk_run EXCEPT
           !.pc = "got",
           !.chunk = ReadChunk(chunk_req.file_size, chunk_run.offset, chunk_req.chunk_size),
           !.reads = Append(@, [offset |-> chunk_run.offset,
                                limit |-> chunk_req.chunk_size])]
    /\ UNCHANGED <<chunk_req, notChunk>>

\* the chunk is cut and yielded; the loop ends on an empty chunk or after the
\* last part
ChunkYield ==
    /\ chunk_run.pc = "got"
    /\ IF Len(chunk_run.chunk) = 0
       THEN chunk_run' = [chunk_run EXCEPT !.pc = "done"]
       ELSE chunk_run' = [chunk_run EXCEPT
                !.out = @ \o CutChunk(chunk_run.chunk, chunk_run.first_part_cut,
                                      chunk_run.last_part_cut, chunk_run.part_count,
                                      chunk_run.current_part),
                !.current_part = @ + 1,
                !.offset = @ + chunk_req.chunk_size,
                !.pc = IF chunk_run.current_part + 1 > chunk_run.part_count
                       THEN "done" ELSE "read"]
    /\ UNCHANGED <<chunk_req, notChunk>>

NextChunk ==
    \/ ChunkStart
    \/ ChunkRead
    \/ ChunkYield

SpecChunk == InitChunk /\ [][NextChunk]_vars

\* ------------------------------------------------------ Range header, text
\* Text is a sequence of one-character strings. "b" stands for the literal
\* prefix 'bytes=' and "x" for any character that is neither a digit nor '-'.
DigitChars == <<"0", "1", "2", "3", "4", "5", "6", "7", "8", "9">>
IsDigit(ch) == \E d \in 1..10 : DigitChars[d] = ch
DigitValue(ch) == (CHOOSE d \in 1..10 : DigitChars[d] = ch) - 1

\* str(n) / f"{n}" for an int n
RECURSIVE Str(_)
Str(n) ==
    IF n < 0 THEN <<"-">> \o Str(0 - n)
    ELSE IF n < 10 THEN <<DigitChars[n + 1]>>
    ELSE Str(n \div 10) \o <<DigitChars[(n % 10) + 1]>>

RECURSIVE DigitsValue(_)
DigitsValue(t) ==
    IF Len(t) = 0 THEN 0
    ELSE 10 * DigitsValue(SubSeq(t, 1, Len(t) - 1)) + DigitValue(t[Len(t)])

AllDigits(t) == Len(t) > 0 /\ \A i \in 1..Len(t) : IsDigit(t[i])

\* int(t): [ok, value]; ValueError (ok = FALSE) unless t is digits with an
\* optional leading '-'
IntParse(t) ==
    IF AllDigits(t) THEN [ok |-> TRUE, value |-> DigitsValue(t)]
    ELSE IF Len(t) > 1 /\ t[1] = "-" /\ AllDigits(Tail(t))
    THEN [ok |-> TRUE, value |-> 0 - DigitsValue(Tail(t))]
    ELSE [ok |-> FALSE, value |-> 0]

\* index of the first '-' in t, 0 if there is none
FirstDash(t) ==
    IF \E i \in 1..Len(t) : t[i] = "-"
    THEN CHOOSE i \in 1..Len(t) : t[i] = "-" /\ \A j \in 1..(i - 1) : t[j] # "-"
    ELSE 0

NoRange == [ok |-> FALSE, from_bytes |-> 0, until_bytes |-> 0]

\* a mutant: the start of the range is ignored
ParseRangeHeader_NoStart(range_header, file_size) ==
    IF Len(range_header) = 0 \/ range_header[1] # "b" THEN NoRange
    ELSE LET range_spec == Tail(range_header)
             d == FirstDash(range_spec)
             end_str == SubSeq(range_spec, d + 1, Len(range_spec))
             e == IF Len(end_str) > 0 THEN IntParse(end_str)
                  ELSE [ok |-> TRUE, value |-> file_size - 1]
         IN  IF d = 0 \/ ~e.ok THEN NoRange
             ELSE IF (e.value > file_size) \/ (e.value < 0)
             THEN NoRange
             ELSE [ok |-> TRUE, from_bytes |-> 0,
                   until_bytes |-> Min(e.value, file_size - 1)]

\* parse_range_header: ok = FALSE is the None it returns
ParseRangeHeader(range_header, file_size) ==
    IF Len(range_header) = 0 \/ range_header[1] # "b" THEN NoRange
    ELSE LET range_spec == Tail(range_header)
             d == FirstDash(range_spec)
             start_str == SubSeq(range_spec, 1, d - 1)
             end_str == SubSeq(range_spec, d + 1, Len(range_spec))
             s == IF Len(start_str) > 0 THEN IntParse(start_str)
                  ELSE [ok |-> TRUE, value |-> 0]
             e == IF Len(end_str) > 0 THEN IntParse(end_str)
                  ELSE [ok |-> TRUE, value |-> file_size - 1]
         IN  IF d = 0 \/ ~s.ok \/ ~e.ok THEN NoRange
             ELSE IF (e.value > file_size) \/ (s.value < 0) \/ (e.value < s.value)
             THEN NoRange
             ELSE [ok |-> TRUE, from_bytes |-> s.value,
                   until_bytes |-> Min(e.value, file_size - 1)]

\* f'bytes {from_bytes}-{until_bytes}/{file_size}' and f'bytes */{file_size}'
ContentRange(from_bytes, until_bytes, file_size) ==
    <<"b">> \o Str(from_bytes) \o <<"-">> \o Str(until_bytes) \o <<"/">> \o Str(file_size)
ContentRangeUnsatisfied(file_size) == <<"b", "*", "/">> \o Str(file_size)

\* ------------------------------------------------------------ link ids, text
\* encode_message_id / decode_message_id. The encoded id is text over the
\* base64url alphabet; its decoded form is a sequence of byte values.
B64Alphabet ==
    <<"A", "B", "C", "D", "E", "F", "G", "H", "I", "J", "K", "L", "M",
      "N", "O", "P", "Q", "R", "S", "T", "U", "V", "W", "X", "Y", "Z",
      "a", "b", "c", "d", "e", "f", "g", "h", "i", "j", "k", "l", "m",
      "n", "o", "p", "q", "r", "s", "t", "u", "v", "w", "x", "y", "z",
      "0", "1", "2", "3", "4", "5", "6", "7", "8", "9", "-", "_">>
IsB64Char(ch) == \E i \in 1..64 : B64Alphabet[i] = ch
B64Index(ch) == (CHOOSE i \in 1..64 : B64Alphabet[i] = ch) - 1
HexChars ==
    {"0", "1", "2", "3", "4", "5", "6", "7", "8", "9",
     "a", "b", "c", "d", "e", "f", "A", "B", "C", "D", "E", "F"}

\* the key of the links, abs(Var.LOG_CHANNEL), and the limits of the decoder
\* and of the route, scaled: a decoded id above MaxDecodedMessageId (2**63)
\* is refused, an encoded id longer than MaxEncodedIdLen (100) is refused by
\* the route and one longer than MaxDecodeLen (200) by the decoder
GetIdEncoderKey == 3
MaxDecodedMessageId == 5
MaxEncodedIdLen == 3
MaxDecodeLen == 6
NoMessage == 0           \* None (no message id)

\* str(n).encode('utf-8') for n >= 0: the ASCII codes of the digits
Utf8OfDigits(t) == [i \in 1..Len(t) |-> 48 + DigitValue(t[i])]

\* base64.urlsafe_b64encode
RECURSIVE UrlsafeB64Encode(_)
UrlsafeB64Encode(b) ==
    IF Len(b) = 0 THEN <<>>
    ELSE IF Len(b) = 1
    THEN <<B64Alphabet[(b[1] \div 4) + 1], B64Alphabet[(b[1] % 4) * 16 + 1], "=", "=">>
    ELSE IF Len(b) = 2
    THEN <<B64Alphabet[(b[1] \div 4) + 1],
           B64Alphabet[(b[1] % 4) * 16 + (b[2] \div 16) + 1],
           B64Alphabet[(b[2] % 16) * 4 + 1], "=">>
    ELSE <<B64Alphabet[(b[1] \div 4) + 1],
           B64Alphabet[(b[1] % 4) * 16 + (b[2] \div 16) + 1],
           B64Alphabet[(b[2] % 16) * 4 + (b[3] \div 64) + 1],
           B64Alphabet[(b[3] % 64) + 1]>> \o UrlsafeB64Encode(SubSeq(b, 4, Len(b)))

\* t.rstrip("=")
RECURSIVE RStripPad(_)
RStripPad(t) ==
    IF Len(t) > 0 /\ t[Len(t)] = "=" THEN RStripPad(SubSeq(t, 1, Len(t) - 1)) ELSE t

\* a mutant: the padding is kept in the link
EncodeMessageId_Padded(message_id) ==
    UrlsafeB64Encode(Utf8OfDigits(Str(message_id * GetIdEncoderKey)))

\* encode_message_id, for a positive int
EncodeMessageId(message_id) ==
    RStripPad(UrlsafeB64Encode(Utf8OfDigits(Str(message_id * GetIdEncoderKey))))

\* "=" * (-len(t) % 4)
Padding(t) == [i \in 1..((4 - (Len(t) % 4)) % 4) |-> "="]

\* the bytes of the data characters s (alphabet indices); the bits left over
\* after the last whole byte are dropped
RECURSIVE B64Bytes(_)
B64Bytes(s) ==
    IF Len(s) < 2 THEN <<>>
    ELSE IF Len(s) = 2 THEN <<s[1] * 4 + (s[2] \div 16)>>
    ELSE IF Len(s) = 3
    THEN <<s[1] * 4 + (s[2] \div 16), (s[2] % 16) * 16 + (s[3] \div 4)>>
    ELSE <<s[1] * 4 + (s[2] \div 16), (s[2] % 16) * 16 + (s[3] \div 4),
           (s[3] % 4) * 64 + s[4]>> \o B64Bytes(SubSeq(s, 5, Len(s)))

\* base64.urlsafe_b64decode of text over the alphabet followed by its
\* padding: [ok, bytes]; binascii.Error (ok = FALSE) when the number of data
\* characters is 1 more than a multiple of 4
UrlsafeB64Decode(t) ==
    LET data == RStripPad(t)
    IN  IF Len(data) % 4 = 1 THEN [ok |-> FALSE, bytes |-> <<>>]
        ELSE [ok |-> TRUE, bytes |-> B64Bytes([i \in 1..Len(data) |-> B64Index(data[i])])]

\* bytes.decode('utf-8') succeeds: ASCII bytes, and two-byte sequences; a
\* longer sequence does not fit in the decoded ids of the model
RECURSIVE Utf8Valid(_)
Utf8Valid(b) ==
    IF Len(b) = 0 THEN TRUE
    ELSE IF b[1] < 128 THEN Utf8Valid(Tail(b))
    ELSE /\ b[1] \in 194..223
         /\ Len(b) >= 2
         /\ b[2] \in 128..191
         /\ Utf8Valid(SubSeq(b, 3, Len(b)))

\* int(text) for ASCII text given as byte values: [ok, value]. Surrounding
\* whitespace is stripped, one sign is allowed, digits may be grouped by
\* single underscores
IsSpaceByte(x) == x \in {9, 10, 11, 12, 13, 32}
IsDigitByte(x) == x \in 48..57
RECURSIVE StripBytes(_)
StripBytes(b) ==
    IF Len(b) > 0 /\ IsSpaceByte(b[1]) THEN StripBytes(Tail(b))
    ELSE IF Len(b) > 0 /\ IsSpaceByte(b[Len(b)]) THEN StripBytes(SubSeq(b, 1, Len(b) - 1))
    ELSE b
RECURSIVE DigitBytesValue(_)
DigitBytesValue(d) ==
    IF Len(d) = 0 THEN 0
    ELSE IF d[Len(d)] = 95 THEN DigitBytesValue(SubSeq(d, 1, Len(d) - 1))
    ELSE 10 * DigitBytesValue(SubSeq(d, 1, Len(d) - 1)) + (d[Len(d)] - 48)
IsIntLiteral(d) ==
    /\ Len(d) > 0
    /\ IsDigitByte(d[1])
    /\ IsDigitByte(d[Len(d)])
    /\ \A i \in 1..Len(d) : IsDigitByte(d[i]) \/ d[i] = 95
    /\ \A i \in 1..(Len(d) - 1) : ~(d[i] = 95 /\ d[i + 1] = 95)
IntOfBytes(b) ==
    LET s == StripBytes(b)
        signed == Len(s) > 0 /\ s[1] \in {43, 45}
        d == IF signed THEN Tail(s) ELSE s
    IN  IF \A i \in 1..Len(b) : b[i] < 128
        THEN IF IsIntLiteral(d)
             THEN [ok |-> TRUE,
                   value |-> IF signed /\ s[1] = 45 THEN 0 - DigitBytesValue(d)
                             ELSE DigitBytesValue(d)]
             ELSE [ok |-> FALSE, value |-> 0]
        ELSE [ok |-> FALSE, value |-> 0]

\* decode_message_id: the message id, or NoMessage for None
DecodeMessageId(encoded_id_str) ==
    IF Len(encoded_id_str) = 0 THEN NoMessage
    ELSE IF Len(encoded_id_str) > MaxDecodeLen THEN NoMessage
    ELSE IF \A i \in 1..Len(encoded_id_str) : encoded_id_str[i] \in HexChars THEN NoMessage
    ELSE IF ~(\A i \in 1..Len(encoded_id_str) : IsB64Char(encoded_id_str[i])) THEN NoMessage
    ELSE LET key == GetIdEncoderKey
             decoded == UrlsafeB64Decode(encoded_id_str \o Padding(encoded_id_str))
             transformed == IntOfBytes(decoded.bytes)
             original_message_id == transformed.value \div key
         IN  IF ~decoded.ok THEN NoMessage
             ELSE IF ~Utf8Valid(decoded.bytes) THEN NoMessage
             ELSE IF ~transformed.ok THEN NoMessage
             ELSE IF transformed.value % key # 0 THEN NoMessage
             ELSE IF original_message_id <= 0 \/ original_message_id > MaxDecodedMessageId
             THEN NoMessage
             ELSE IF original_message_id * key # transformed.value THEN NoMessage
             ELSE original_message_id

\* ------------------------------------------- allocator driven by direct calls
InitAlloc ==
    /\ connected = [c \in Clients |-> TRUE]
    /\ now = 0
    /\ AllocInit
    /\ last = NoCall
    /\ ChunkIdle
    /\ ManagerIdle
    /\ RouteIdle

Acquire(task_id) ==
    LET r == AcquireClientForDownload(AllocState, TaskFileSize(task_id), task_id)
    IN  /\ SetAlloc(r.alloc)
        /\ last' = [op |-> CallOp("acquire", r.err), ret |-> r.ret,
                    was |-> IF r.ret = NoClient THEN "none" ELSE client_states[r.ret]]
        /\ UNCHANGED <<connected, now, notAlloc>>

OnFloodWait(c, secs, task_id) ==
    LET r == HandleFloodWaitRetry(AllocState, c, secs, TaskFileSize(task_id), task_id)
    IN  /\ SetAlloc(r.alloc)
        /\ last' = NoCall
        /\ UNCHANGED <<connected, now, notAlloc>>

Release(c, task_id) ==
    /\ SetAlloc(ReleaseClient(AllocState, c, task_id))
    /\ last' = NoCall
    /\ UNCHANGED <<connected, now, notAlloc>>

Sweep ==
    /\ SetAlloc(CleanupStaleStates(AllocState))
    /\ last' = NoCall
    /\ UNCHANGED <<connected, now, notAlloc>>

\* The clock advances. Only expiry timestamps read the clock, so a tick with no
\* expiry entry recorded is not observable and is left out.
Tick ==
    /\ now < MaxTime
    /\ \E c \in Clients : flood_wait_until[c] # NoFlood
    /\ now' = now + 1
    /\ last' = NoCall
    /\ UNCHANGED <<connected, allocVars, notAlloc>>

\* a connection is lost or stopped; connections are not recreated mid-run
Disconnect(c) ==
    /\ connected[c]
    /\ connected' = [connected EXCEPT ![c] = FALSE]
    /\ last' = NoCall
    /\ UNCHANGED <<now, allocVars, notAlloc>>

NextAlloc ==
    \/ \E t \in TaskIds : Acquire(t)
    \/ \E c \in Clients, s \in 1..MaxFloodWait, t \in TaskIds : OnFloodWait(c, s, t)
    \/ \E c \in Clients, t \in TaskIds : Release(c, t)
    \/ Sweep
    \/ Tick
    \/ \E c \in Clients : Disconnect(c)

SpecAlloc == InitAlloc /\ [][NextAlloc]_vars

\* --------------------------------- allocator driven by direct calls, sweeps
\* As SpecAlloc, with each cleanup_stale_states call recorded in `last`.
SweepCall ==
    /\ SetAlloc(CleanupStaleStates(AllocState))
    /\ last' = [op |-> "cleanup_stale_states", ret |-> NoClient, was |-> "none"]
    /\ UNCHANGED <<connected, now, notAlloc>>

NextSweep ==
    \/ \E t \in TaskIds : Acquire(t)
    \/ \E c \in Clients, s \in 1..MaxFloodWait, t \in TaskIds : OnFloodWait(c, s, t)
    \/ \E c \in Clients, t \in TaskIds : Release(c, t)
    \/ SweepCall
    \/ Tick
    \/ \E c \in Clients : Disconnect(c)

SpecSweep == InitAlloc /\ [][NextSweep]_vars

\* ------------------------------- allocator driven by direct calls, releases
\* acquire, handle_flood_wait_retry and release_client in any order, all
\* clients connected and the clock standing still (release_client reads neither
\* the clock nor the connections), with each release_client call recorded in
\* `last`: the
\* client and task id it was called with, the status and the task recorded
\* for the client when it was called (`was`, `held`), and the client, task id
\* and recorded task of the release_client call of the step before, if that
\* step was one (`before`).
ReleaseCall(c, task_id) ==
    /\ SetAlloc(ReleaseClient(AllocState, c, task_id))
    /\ last' = [op |-> "release", ret |-> c, was |-> StatusOf(AllocState, c),
                task |-> task_id, held |-> client_tasks[c],
                before |-> IF last.op = "release"
                           THEN <<last.ret, last.task, last.held>> ELSE <<>>]
    /\ UNCHANGED <<connected, now, notAlloc>>

NextRelease ==
    \/ \E t \in TaskIds : Acquire(t)
    \/ \E c \in Clients, s \in 1..MaxFloodWait, t \in TaskIds : OnFloodWait(c, s, t)
    \/ \E c \in Clients, t \in TaskIds : ReleaseCall(c, t)

SpecRelease == InitAlloc /\ [][NextRelease]_vars

\* ------------------------- allocator driven by direct calls, overlapping waits
\* acquire, handle_flood_wait_retry with waits of 1..LongFloodWait seconds (so
\* that a wait reported later can end before one reported earlier),
\* release_client, cleanup_stale_states and the clock; all clients stay
\* connected. The clock is time.time(): it advances whatever calls are made,
\* so Tick is weakly fair.
NextFlood ==
    \/ \E t \in TaskIds : Acquire(t)
    \/ \E c \in Clients, s \in 1..LongFloodWait, t \in TaskIds : OnFloodWait(c, s, t)
    \/ \E c \in Clients, t \in TaskIds : Release(c, t)
    \/ Sweep
    \/ Tick

SpecFlood == InitAlloc /\ [][NextFlood]_vars /\ WF_vars(Tick)

\* --------------------------------------------- client manager, direct calls
\* start_clients on a manager holding no client, the selections, the loss of a
\* connection and stop_clients, in any order. The allocator, the chunk engine
\* and the route stand still.
InitPool ==
    /\ connected = [c \in Clients |-> TRUE]
    /\ now = 0
    /\ AllocInit
    /\ last = NoCall
    /\ ChunkIdle
    /\ RouteIdle
    /\ ManagerIdle

notManager == <<allocSide, chunkVars, routeVars, cached_file_ids, fault_limit, serviceVars>>

Start(primary, started, lost) ==
    /\ pool.primary_client = NoClient
    /\ pool.all_clients = <<>>
    /\ LET r == StartClients(pool, primary, started, lost)
       IN  /\ pool' = r.pool
           /\ called' = [NoCalled EXCEPT
                           !.op = "start_clients", !.err = r.err,
                           !.input = [primary |-> primary, started |-> started,
                                      lost |-> lost]]
    /\ UNCHANGED notManager

Stop(failing) ==
    /\ \A c \in failing : pool.is_connected[c] /\ c \in {pool.all_clients[i] : i \in 1..Len(pool.all_clients)}
    /\ LET r == StopClients(pool, failing)
       IN  /\ pool' = r.pool
           /\ called' = [NoCalled EXCEPT !.op = "stop_clients", !.err = r.err,
                                         !.len = r.stopped,
                                         !.again = called.op = "stop_clients"]
    /\ UNCHANGED notManager

\* the last NumTokens entries of a run of returns
RunAppend(run, c) ==
    LET s == Append(run, c)
    IN  IF Len(s) > NumTokens THEN SubSeq(s, Len(s) - NumTokens + 1, Len(s)) ELSE s

SelectForStreaming ==
    /\ LET r == GetStreamingClient(pool)
       IN  /\ pool' = r.pool
           /\ called' = [NoCalled EXCEPT
                           !.op = "get_streaming_client", !.ret = r.ret, !.err = r.err,
                           !.index = r.index, !.len = r.len,
                           !.run = IF r.err = "none" THEN RunAppend(called.run, r.ret)
                                   ELSE <<>>]
    /\ UNCHANGED notManager

SelectAlternative(exclude_client) ==
    /\ LET r == GetAlternativeStreamingClient(pool, exclude_client)
       IN  /\ pool' = r.pool
           /\ called' = [NoCalled EXCEPT
                           !.op = "get_alternative_streaming_client", !.ret = r.ret,
                           !.index = r.index, !.len = r.len, !.arg = exclude_client]
    /\ UNCHANGED notManager

\* a client of the manager loses its connection
PoolDisconnect(c) ==
    /\ pool.is_connected[c]
    /\ pool' = [pool EXCEPT !.is_connected[c] = FALSE]
    /\ called' = NoCalled
    /\ UNCHANGED notManager

NextPool ==
    \/ \E primary \in {"ok", "start", "get_me"} :
         \E started \in SUBSET PoolWorkers : \E lost \in SUBSET started :
            Start(primary, started, lost)
    \/ \E failing \in SUBSET PoolClients : Stop(failing)
    \/ SelectForStreaming
    \/ \E c \in PoolClients : SelectAlternative(c)
    \/ \E c \in PoolClients : PoolDisconnect(c)

SpecPool == InitPool /\ [][NextPool]_vars

\* ------------------------------- allocator over the manager's clients, groups
\* The allocator of a manager whose clients all started, which lose their
\* connections one by one. An acquire is followed through its group
\* calculation and its round-robin pick; the statuses it reads are not kept:
\* the clients found unavailable (Busy, or in an unexpired flood wait) are any
\* subset of the connected clients, since acquires, releases and flood waits of other
\* tasks can leave any of them unavailable.
InitGroups ==
    /\ connected = [c \in Clients |-> TRUE]
    /\ now = 0
    /\ AllocInit
    /\ last = NoCall
    /\ ChunkIdle
    /\ RouteIdle
    /\ pool = StartClients(PoolNew, "ok", PoolWorkers, {}).pool
    /\ cached_file_ids = {}
    /\ called = NoCalled

\* [c for c in self.client_manager.all_clients if c and c.is_connected]
PoolConnected == SelectSeq(pool.all_clients, LAMBDA c : pool.is_connected[c])

\* acquire_client_for_download with the availability of each client given:
\* [alloc, ret, err, index, len, small, large, stored]
AcquireOverPool(a, file_category, unavailable) ==
    LET g == CalculateClientGroupsOf(a, PoolConnected)
        avs == SelectSeq(g.small, LAMBDA c : c \notin unavailable)
        avl == SelectSeq(g.large, LAMBDA c : c \notin unavailable)
        use_small == file_category = "small" /\ Len(avs) > 0
        list == IF use_small THEN avs ELSE avl
        pick == SelectClientRoundRobin(g.alloc, list, use_small)
    IN  [alloc |-> pick.alloc, ret |-> pick.selected,
         err |-> IF g.err # "none" THEN g.err
                 ELSE IF pick.selected = NoClient THEN "NoClientsAvailableError"
                 ELSE "none",
         index |-> pick.index, len |-> Len(list), small |-> g.small, large |-> g.large,
         stored |-> IF use_small THEN g.alloc.small_preferred_index
                    ELSE g.alloc.large_preferred_index]

GroupAcquire(file_category, unavailable) ==
    /\ \A c \in unavailable : pool.is_connected[c]
    /\ LET r == AcquireOverPool(AllocState, file_category, unavailable)
       IN  /\ small_preferred_index' = r.alloc.small_preferred_index
           /\ large_preferred_index' = r.alloc.large_preferred_index
           /\ last_client_count' = r.alloc.last_client_count
           /\ called' = [NoCalled EXCEPT
                           !.op = "acquire", !.ret = r.ret, !.err = r.err,
                           !.index = r.index, !.len = r.len,
                           !.small = r.small, !.large = r.large,
                           !.stored = r.stored]
    /\ UNCHANGED <<connected, now, client_states, client_tasks, flood_wait_until, last,
                   chunkVars, routeVars, pool, cached_file_ids, fault_limit,
                   serviceVars>>

NextGroups ==
    \/ \E category \in {"small", "large"} : \E unavailable \in SUBSET PoolClients :
          GroupAcquire(category, unavailable)
    \/ \E c \in PoolClients : PoolDisconnect(c)

SpecGroups == InitGroups /\ [][NextGroups]_vars

\* ------------------------------------------------- ByteStreamer, file ids
\* One ByteStreamer and the log channel it reads. A message of the log
\* channel is empty (deleted), or holds no media, or holds a file of some size.
CacheMessages == 1..NumTasks
LogMessages ==
    {[empty |-> TRUE, has_media |-> FALSE, file_size |-> 0],
     [empty |-> FALSE, has_media |-> FALSE, file_size |-> 0]}
        \cup {[empty |-> FALSE, has_media |-> TRUE, file_size |-> n] :
                 n \in {small_file_threshold_bytes - 1, small_file_threshold_bytes}}

DictHas(d, key) == \E e \in d : e[1] = key
DictGet(d, key) == (CHOOSE e \in d : e[1] = key)[2]

\* get_file_ids: [file_id, err]. A message without media has no FileId to
\* decode: parse_file_id returns None and setattr(None, "file_size", ...)
\* raises AttributeError.
GetFileIds(message_id, rpc_fails) ==
    LET message == files[message_id]
    IN  IF rpc_fails THEN [file_id |-> NoCalled.file_id, err |-> "RPCError"]
        ELSE IF message.empty
        THEN [file_id |-> NoCalled.file_id, err |-> "FileNotFoundError"]
        ELSE IF ~message.has_media
        THEN [file_id |-> NoCalled.file_id, err |-> "AttributeError"]
        ELSE [file_id |-> [message_id |-> message_id, file_size |-> message.file_size],
              err |-> "none"]

\* a mutant: the descriptor is not stored before it is read back
GenerateFileProperties_NoStore(cache, message_id, rpc_fails) ==
    LET r == GetFileIds(message_id, rpc_fails)
    IN  [cache |-> cache, file_id |-> r.file_id, err |-> r.err]

\* generate_file_properties: [cache, file_id, err]
GenerateFileProperties(cache, message_id, rpc_fails) ==
    LET r == GetFileIds(message_id, rpc_fails)
    IN  IF r.err # "none" THEN [cache |-> cache, file_id |-> r.file_id, err |-> r.err]
        ELSE [cache |-> DictPut(cache, message_id, r.file_id),
              file_id |-> r.file_id, err |-> "none"]

\* get_file_properties: [cache, file_id, err, lookups]
GetFileProperties(cache, message_id, rpc_fails) ==
    IF DictHas(cache, message_id)
    THEN [cache |-> cache, file_id |-> DictGet(cache, message_id), err |-> "none",
          lookups |-> 0]
    ELSE LET g == GenerateFileProperties(cache, message_id, rpc_fails)
         IN  [cache |-> g.cache,
              file_id |-> IF g.err = "none" THEN DictGet(g.cache, message_id)
                          ELSE g.file_id,
              err |-> g.err, lookups |-> 1]

InitCache ==
    /\ connected = [c \in Clients |-> TRUE]
    /\ now = 0
    /\ AllocInit
    /\ last = NoCall
    /\ ChunkIdle
    /\ req = <<>>
    /\ files \in [CacheMessages -> LogMessages]
    /\ round_robin_index = 0
    /\ faults = 0
    /\ fault_limit = MaxFaults
    /\ ServiceIdle
    /\ loop_time = 0
    /\ ManagerIdle

notCache == <<allocSide, chunkVars, req, round_robin_index, faults, loop_time, pool,
             fault_limit, serviceVars>>

Resolve(message_id, rpc_fails) ==
    /\ LET r == GetFileProperties(cached_file_ids, message_id, rpc_fails)
       IN  /\ cached_file_ids' = r.cache
           /\ called' = [NoCalled EXCEPT
                           !.op = "get_file_properties", !.arg = message_id,
                           !.err = r.err, !.file_id = r.file_id,
                           !.lookups = r.lookups,
                           !.hit = DictHas(cached_file_ids, message_id)]
    /\ UNCHANGED <<files, notCache>>

\* clean_cache, one round: every entry is dropped
CleanCache ==
    /\ cached_file_ids # {}
    /\ cached_file_ids' = {}
    /\ called' = NoCalled
    /\ UNCHANGED <<files, notCache>>

\* a message of the log channel is deleted
DeleteMessage(message_id) ==
    /\ ~files[message_id].empty
    /\ files' = [files EXCEPT ![message_id] =
                    [empty |-> TRUE, has_media |-> FALSE, file_size |-> 0]]
    /\ called' = NoCalled
    /\ UNCHANGED <<cached_file_ids, notCache>>

NextCache ==
    \/ \E m \in CacheMessages, rpc_fails \in BOOLEAN : Resolve(m, rpc_fails)
    \/ CleanCache
    \/ \E m \in CacheMessages : DeleteMessage(m)

SpecCache == InitCache /\ [][NextCache]_vars

\* ----------------------------------------------------------------- /dl route
\* One record per HTTP request of GET /dl/{encoded_id}. `pc` is the await the
\* request's task is suspended at; the code between two awaits runs without
\* interleaving (one event loop; the allocator's and the pool's locks are
\* never held across an await, so taking them never suspends).
Requests == 1..NumRequests
Messages == 1..NumTasks
PrimaryClient == 1                  \* client_manager.primary_client is all_clients[0]
Horizon == MaxTime + MaxFloodWait + 2

\* task_id = f"{message_id}_{encoded_id[:10]}_{int(start_time_request)}": one
\* value per (message, second of arrival); concurrent requests come with the
\* links encode_message_id made, so encoded_id[:10] is fixed by message_id
TaskIdOf(message_id, sec) == (message_id - 1) * (MaxTime + 1) + sec + 1

\* An exception: its type, and for a web.HTTPException its status and the
\* Content-Range and Accept-Ranges headers it was built with (<<>>, "": absent).
\* Every raise of web.py passes text=..., but for the 416 which passes
\* headers={'Content-Range': ...}.
NoExc == [type |-> "none", status |-> 0, content_range |-> <<>>, accept_ranges |-> ""]
HTTPError(status) ==
    [type |-> "HTTP", status |-> status, content_range |-> <<>>, accept_ranges |-> ""]
OtherError(type) ==
    [type |-> type, status |-> 0, content_range |-> <<>>, accept_ranges |-> ""]
CancelledError == OtherError("CancelledError")

NoResult == [kind |-> "none", status |-> 0, content_range |-> <<>>, accept_ranges |-> ""]

OffRequest ==
    [pc |-> "off", encoded_id |-> <<>>, message_id |-> NoMessage,
     range_header |-> <<>>, task_id |-> NoTask,
     attempt |-> 0, streamer_client |-> NoClient, file_size |-> 0, has_media |-> FALSE,
     status_code |-> 0, content_range |-> <<>>, content_length |-> <<>>,
     accept_ranges |-> "",
     prepared |-> FALSE, from_bytes |-> 0, until_bytes |-> 0,
     bytes_streamed |-> 0, stream_attempt |-> 0,
     current_offset |-> 0, first_part_cut |-> 0, last_part_cut |-> 0, part_count |-> 0,
     current_part |-> 0, part_bytes |-> 0, chunk_to_send |-> <<>>,
     wake_at |-> 0, pending |-> NoExc,
     written |-> <<>>, credited |-> 0, acquired |-> <<>>, released |-> <<>>,
     write_e |-> "none", current_retry |-> 0,
     result |-> NoResult]

\* a request for GET /dl/{encoded_id} with Range header h, not yet handled
NewRequest(encoded_id, h) ==
    [OffRequest EXCEPT !.pc = "new", !.encoded_id = encoded_id, !.range_header = h]

\* is_retryable_error
IsRetryableError(e) ==
    e.type \in {"ConnectionResetError", "NoClientsAvailableError"}

\* release_client_safely(intelligent_allocator, streamer_client, task_id)
ReleaseClientSafely(s) ==
    IF s.rq.streamer_client = NoClient THEN s
    ELSE [alloc |-> ReleaseClient(s.alloc, s.rq.streamer_client, s.rq.task_id),
          rq |-> [s.rq EXCEPT !.released = Append(@, s.rq.streamer_client)]]

\* a mutant: the route retries a retryable error whatever the attempt
DownloadRouteExcept_NoLastAttempt(rq, e) ==
    IF e.type = "CancelledError" THEN [rq EXCEPT !.pc = "cancelled", !.pending = NoExc]
    ELSE IF ~IsRetryableError(e)
    THEN [rq EXCEPT !.pc = "done", !.pending = NoExc,
                    !.result = [kind |-> "raised",
                                status |-> IF e.type = "HTTP" THEN e.status ELSE 500,
                                content_range |-> e.content_range,
                                accept_ranges |-> e.accept_ranges]]
    ELSE [rq EXCEPT !.pc = "retry_delay", !.pending = NoExc]

\* download_route, its except clause: the last attempt or a non-retryable
\* error ends the request with an HTTP error, otherwise the retry delay is
\* slept. CancelledError is not an Exception and ends the task.
DownloadRouteExcept(rq, e) ==
    IF e.type = "CancelledError" THEN [rq EXCEPT !.pc = "cancelled", !.pending = NoExc]
    ELSE IF rq.attempt = MAX_RETRIES \/ ~IsRetryableError(e)
    THEN [rq EXCEPT !.pc = "done", !.pending = NoExc,
                    !.result = [kind |-> "raised",
                                status |-> IF e.type = "HTTP" THEN e.status ELSE 500,
                                content_range |-> e.content_range,
                                accept_ranges |-> e.accept_ranges]]
    ELSE [rq EXCEPT !.pc = "retry_delay", !.pending = NoExc]

\* _execute_download_logic, its `except Exception`: release, re-raise
ExecuteExcept(s, e) ==
    IF e.type = "CancelledError"
    THEN [alloc |-> s.alloc, rq |-> DownloadRouteExcept(s.rq, e)]
    ELSE LET s1 == ReleaseClientSafely(s)
         IN  [alloc |-> s1.alloc, rq |-> DownloadRouteExcept(s1.rq, e)]

\* the streaming loop is left (break, loop exhausted, or an exception e on its
\* way out): tracked_stream_response awaits write_eof in its finally
LeaveLoop(s, e) == [s EXCEPT !.rq.pc = "eof", !.rq.pending = e]

\* stream_file_chunks is called: parameters validated (ValueError is caught by
\* the loop's `except Exception`: break), plan computed, the first read awaited
StartAttempt(s) ==
    LET rq == s.rq
        plan == CalculateChunkParameters(rq.from_bytes, rq.until_bytes, CHUNK_SIZE)
    IN  IF ~ValidateStreamingParameters(rq.from_bytes, rq.until_bytes, rq.file_size, CHUNK_SIZE)
        THEN LeaveLoop(s, NoExc)
        ELSE [s EXCEPT !.rq.pc = "read", !.rq.part_bytes = 0,
                       !.rq.current_offset = plan.offset,
                       !.rq.first_part_cut = plan.first_part_cut,
                       !.rq.last_part_cut = plan.last_part_cut,
                       !.rq.part_count = plan.part_count,
                       !.rq.current_part = 1]

\* the next iteration of `for stream_attempt in range(max_stream_retries + 1)`
NextAttempt(s) ==
    IF s.rq.stream_attempt = max_stream_retries THEN LeaveLoop(s, NoExc)
    ELSE StartAttempt([s EXCEPT !.rq.stream_attempt = @ + 1])

\* stream_file_chunks returns its count: bytes_streamed is assigned, break
AttemptReturned(s) ==
    LeaveLoop([s EXCEPT !.rq.bytes_streamed = s.rq.part_bytes], NoExc)

\* end of one iteration of the chunk loop
AfterPart(s) ==
    LET s1 == [s EXCEPT !.rq.current_part = @ + 1,
                        !.rq.current_offset = @ + CHUNK_SIZE,
                        !.rq.chunk_to_send = <<>>]
    IN  IF s1.rq.current_part > s1.rq.part_count THEN AttemptReturned(s1)
        ELSE [s1 EXCEPT !.rq.pc = "read"]

\* _stream_file_to_response up to `await response.prepare(request)`
StreamFileToResponse(s) ==
    LET rq == s.rq
        range_result == ParseRangeHeader(rq.range_header, rq.file_size)
    IN  IF ~rq.has_media /\ rq.file_size = 0
        THEN ExecuteExcept(ReleaseClientSafely(s), HTTPError(500))
        ELSE IF Len(rq.range_header) > 0
        THEN IF ~range_result.ok
             THEN ExecuteExcept(ReleaseClientSafely(s),
                      [type |-> "HTTP", status |-> 416,
                       content_range |-> ContentRangeUnsatisfied(rq.file_size),
                       accept_ranges |-> ""])
             ELSE [s EXCEPT
                     !.rq.pc = "prepare",
                     !.rq.from_bytes = range_result.from_bytes,
                     !.rq.until_bytes = range_result.until_bytes,
                     !.rq.content_range = ContentRange(range_result.from_bytes,
                                              range_result.until_bytes, rq.file_size),
                     !.rq.content_length = Str(range_result.until_bytes
                                               - range_result.from_bytes + 1),
                     !.rq.accept_ranges = "bytes",
                     !.rq.status_code = 206]
        ELSE [s EXCEPT
                !.rq.pc = "prepare",
                !.rq.from_bytes = 0,
                !.rq.until_bytes = IF rq.file_size > 0 THEN rq.file_size - 1 ELSE 0,
                !.rq.content_range = <<>>,
                !.rq.content_length = Str(rq.file_size),
                !.rq.accept_ranges = "bytes",
                !.rq.status_code = 200]

\* _execute_download_logic step 3: the message is fetched again through the
\* streamer when it is not the primary
EnsureMessageConsistency(s) ==
    IF s.rq.streamer_client # PrimaryClient
    THEN [s EXCEPT !.rq.pc = "refetch"]
    ELSE StreamFileToResponse(s)

\* _execute_download_logic from its first line to `await get_media_message`
ExecuteDownloadLogic(s) ==
    LET s0 == [s EXCEPT !.rq.streamer_client = NoClient]
    IN  IF ~connected[PrimaryClient]
        THEN ExecuteExcept(s0, HTTPError(503))
        ELSE [s0 EXCEPT !.rq.pc = "get_message"]

RouteState(r) == [alloc |-> AllocState, rq |-> req[r]]

\* a step of request r that ends in state s; f faults were injected. The
\* step ends the call of get_media_message it was in, if any: the next call
\* starts with current_retry = 0.
Commit(r, s, f) ==
    /\ SetAlloc(s.alloc)
    /\ req' = [req EXCEPT ![r] = [s.rq EXCEPT !.current_retry = 0]]
    /\ faults' = faults + f
    /\ UNCHANGED <<connected, now, last, files, round_robin_index, loop_time, chunkVars, managerVars, fault_limit, serviceVars>>

\* SecurityMiddleware.rate_limiter: web_rate_limiter.is_allowed returned
\* False, HTTPTooManyRequests is raised and the handler is not called
RateLimited(r) ==
    /\ req[r].pc = "new"
    /\ req' = [req EXCEPT ![r] = [@ EXCEPT !.pc = "done",
                                           !.result = [kind |-> "raised", status |-> 429,
                                                       content_range |-> <<>>, accept_ranges |-> ""]]]
    /\ UNCHANGED <<allocSide, files, round_robin_index, faults, loop_time, chunkVars, managerVars, fault_limit, serviceVars>>

\* download_route, input validation: the message id of the link, NoMessage
\* when the route answers 400
ValidateEncodedId(encoded_id) ==
    IF Len(encoded_id) = 0 \/ Len(encoded_id) > MaxEncodedIdLen THEN NoMessage
    ELSE DecodeMessageId(encoded_id)

\* a mutant: the bandwidth limit is looked at, the request goes on
BandwidthExceeded_Ignored(r) ==
    /\ req[r].pc = "new"
    /\ ValidateEncodedId(req[r].encoded_id) # NoMessage
    /\ LET s == ExecuteDownloadLogic(
                    [alloc |-> AllocState,
                     rq |-> [req[r] EXCEPT
                               !.message_id = ValidateEncodedId(req[r].encoded_id),
                               !.task_id = TaskIdOf(ValidateEncodedId(req[r].encoded_id),
                                                    loop_time),
                               !.attempt = 0]])
       IN  /\ SetAlloc(s.alloc)
           /\ req' = [req EXCEPT ![r] = s.rq]
    /\ UNCHANGED <<connected, now, last, files, round_robin_index, faults, loop_time,
                   chunkVars, managerVars, fault_limit, serviceVars>>

\* download_route: the link is valid and is_bandwidth_limit_exceeded()
\* returned True, HTTPServiceUnavailable is raised before the task id is made
BandwidthExceeded(r) ==
    /\ req[r].pc = "new"
    /\ ValidateEncodedId(req[r].encoded_id) # NoMessage
    /\ req' = [req EXCEPT ![r] = [@ EXCEPT !.pc = "done",
                                           !.message_id = ValidateEncodedId(req[r].encoded_id),
                                           !.result = [kind |-> "raised", status |-> 503,
                                                       content_range |-> <<>>, accept_ranges |-> ""]]]
    /\ UNCHANGED <<allocSide, files, round_robin_index, faults, loop_time, chunkVars, managerVars, fault_limit, serviceVars>>

\* download_route: the request arrives; a link that is empty, too long or
\* not decodable is answered 400; otherwise (bandwidth limit not exceeded)
\* the task id is made from the arrival second and the first attempt starts
Arrive(r) ==
    /\ req[r].pc = "new"
    /\ \E sec \in loop_time..Min(loop_time + 1, MaxTime) :
          /\ loop_time' = sec
          /\ LET message_id == ValidateEncodedId(req[r].encoded_id)
                 s == IF message_id = NoMessage
                      THEN [alloc |-> AllocState,
                            rq |-> [req[r] EXCEPT
                                      !.pc = "done",
                                      !.result = [kind |-> "raised", status |-> 400,
                                                  content_range |-> <<>>, accept_ranges |-> ""]]]
                      ELSE ExecuteDownloadLogic(
                               [alloc |-> AllocState,
                                rq |-> [req[r] EXCEPT
                                          !.message_id = message_id,
                                          !.task_id = TaskIdOf(message_id, sec),
                                          !.attempt = 0]])
             IN  /\ SetAlloc(s.alloc)
                 /\ req' = [req EXCEPT ![r] = s.rq]
    /\ UNCHANGED <<connected, now, last, files, round_robin_index, faults, chunkVars, managerVars, fault_limit, serviceVars>>

\* get_media_message(primary_client) returned: file attributes, then step 2,
\* the allocation
GotMessage(r) ==
    /\ req[r].pc = "get_message"
    /\ LET f == files[req[r].message_id]
           rq == [req[r] EXCEPT !.file_size = f.file_size, !.has_media = f.has_media]
           res == AcquireClientForDownload(AllocState, rq.file_size, rq.task_id)
       IN  IF res.err = "none"
           THEN Commit(r, EnsureMessageConsistency(
                        [alloc |-> res.alloc,
                         rq |-> [rq EXCEPT !.streamer_client = res.ret,
                                           !.acquired = Append(@, res.ret)]]), 0)
           ELSE IF res.err = "NoClientsAvailableError"
           THEN Commit(r, [alloc |-> res.alloc, rq |-> [rq EXCEPT !.pc = "fallback"]], 0)
           ELSE Commit(r, ExecuteExcept([alloc |-> res.alloc, rq |-> rq],
                                        OtherError(res.err)), 0)

\* after the fallback delay: client_manager.get_streaming_client()
Fallback(r) ==
    /\ req[r].pc = "fallback"
    /\ LET active_workers == SelectSeq(all_clients,
                                 LAMBDA c : c # PrimaryClient /\ connected[c])
           index == (round_robin_index + 1) % Len(active_workers)
           s == RouteState(r)
       IN  IF Len(active_workers) > 0
           THEN /\ round_robin_index' = index
                /\ LET s1 == EnsureMessageConsistency(
                                 [s EXCEPT !.rq.streamer_client = active_workers[index + 1]])
                   IN  SetAlloc(s1.alloc) /\ req' = [req EXCEPT ![r] = s1.rq]
           ELSE /\ round_robin_index' = round_robin_index
                /\ LET s1 == IF connected[PrimaryClient]
                             THEN EnsureMessageConsistency(
                                      [s EXCEPT !.rq.streamer_client = PrimaryClient])
                             ELSE ExecuteExcept(s, OtherError("NoClientsAvailableError"))
                   IN  SetAlloc(s1.alloc) /\ req' = [req EXCEPT ![r] = s1.rq]
    /\ UNCHANGED <<connected, now, last, files, faults, loop_time, chunkVars, managerVars, fault_limit, serviceVars>>

\* get_media_message(streamer_client) returned
Refetched(r) ==
    /\ req[r].pc = "refetch"
    /\ Commit(r, StreamFileToResponse(RouteState(r)), 0)

\* response.prepare returned: the status line and the headers are sent. The
\* 0-byte shortcut, else the streaming loop starts.
Prepared(r) ==
    /\ req[r].pc = "prepare"
    /\ LET s == [RouteState(r) EXCEPT !.rq.prepared = TRUE, !.rq.bytes_streamed = 0,
                                      !.rq.stream_attempt = 0]
       IN  IF (s.rq.until_bytes - s.rq.from_bytes + 1) = 0 /\ s.rq.file_size = 0
           THEN LET s1 == ReleaseClientSafely(s)
                IN  Commit(r, [s1 EXCEPT !.rq.pc = "done",
                                         !.rq.result = [kind |-> "returned",
                                                        status |-> s.rq.status_code,
                                                        content_range |-> s.rq.content_range,
                                                        accept_ranges |-> s.rq.accept_ranges]], 0)
           ELSE Commit(r, StartAttempt(s), 0)

\* response.prepare raised: the client is gone
PrepareFails(r) ==
    /\ req[r].pc = "prepare"
    /\ faults < fault_limit
    /\ Commit(r, ExecuteExcept(RouteState(r), OtherError("ConnectionResetError")), 1)

\* stream_media yielded the next chunk, or ended
ReadOk(r) ==
    /\ req[r].pc = "read"
    /\ LET s == RouteState(r)
           chunk == ReadChunk(s.rq.file_size, s.rq.current_offset, CHUNK_SIZE)
           chunk_to_send == CutChunk(chunk, s.rq.first_part_cut, s.rq.last_part_cut,
                                     s.rq.part_count, s.rq.current_part)
       IN  IF Len(chunk) = 0 THEN Commit(r, AttemptReturned(s), 0)
           ELSE IF Len(chunk_to_send) > 0
           THEN Commit(r, [s EXCEPT !.rq.pc = "write",
                                    !.rq.chunk_to_send = chunk_to_send], 0)
           ELSE Commit(r, AfterPart(s), 0)

\* stream_media raised
ReadErrors == {"FloodWait", "FileReferenceExpired", "OffsetInvalid", "ConnectionError",
               "Exception"}

ReadError(r, kind, secs) ==
    /\ req[r].pc = "read"
    /\ faults < fault_limit
    /\ LET s == RouteState(r)
           hr == HandleFloodWaitRetry(s.alloc, s.rq.streamer_client, secs,
                                      s.rq.file_size, s.rq.task_id)
       IN  CASE kind = "FileReferenceExpired" ->
                  IF connected[s.rq.streamer_client]
                  THEN Commit(r, [s EXCEPT !.rq.pc = "refresh"], 1)
                  ELSE Commit(r, LeaveLoop(s, NoExc), 1)
             [] kind = "OffsetInvalid" ->
                  IF s.rq.bytes_streamed = 0
                  THEN Commit(r, LeaveLoop(s, HTTPError(500)), 1)
                  ELSE Commit(r, LeaveLoop(s, NoExc), 1)
             [] kind = "FloodWait" ->
                  IF hr.err # "none"
                  THEN Commit(r, LeaveLoop([alloc |-> hr.alloc, rq |-> s.rq],
                                           OtherError(hr.err)), 1)
                  ELSE IF hr.ret # NoClient
                  THEN Commit(r, [alloc |-> hr.alloc,
                                  rq |-> [s.rq EXCEPT !.pc = "switch",
                                                      !.streamer_client = hr.ret,
                                                      !.acquired = Append(@, hr.ret)]], 1)
                  ELSE Commit(r, [alloc |-> hr.alloc,
                                  rq |-> [s.rq EXCEPT !.pc = "flood_sleep",
                                                      !.wake_at = now + secs + 2]], 1)
             [] kind = "ConnectionError" ->
                  IF s.rq.stream_attempt >= max_stream_retries
                  THEN Commit(r, LeaveLoop(s, NoExc), 1)
                  ELSE Commit(r, [s EXCEPT !.rq.pc = "retry_sleep"], 1)
             [] OTHER -> Commit(r, LeaveLoop(s, NoExc), 1)

\* response.write returned
WriteOk(r) ==
    /\ req[r].pc = "write"
    /\ LET s == RouteState(r)
       IN  Commit(r, AfterPart([s EXCEPT
                        !.rq.written = @ \o s.rq.chunk_to_send,
                        !.rq.part_bytes = @ + Len(s.rq.chunk_to_send)]), 0)

\* a mutant: the write error leaves stream_file_chunks
WriteFails_Raises(r) ==
    /\ req[r].pc = "write"
    /\ faults < fault_limit
    /\ Commit(r, LeaveLoop([RouteState(r) EXCEPT
                                !.rq.chunk_to_send = <<>>,
                                !.rq.write_e = "ConnectionResetError"],
                           OtherError("ConnectionResetError")), 1)

\* response.write raised ConnectionResetError or BrokenPipeError, or the task
\* was cancelled while writing: caught in stream_file_chunks, break, the
\* count so far is returned
WriteFails(r) ==
    /\ req[r].pc = "write"
    /\ faults < fault_limit
    /\ Commit(r, AttemptReturned([RouteState(r) EXCEPT
                                      !.rq.chunk_to_send = <<>>,
                                      !.rq.write_e = "ConnectionResetError"]), 1)

\* get_media_message returned inside a handler of the streaming loop (after a
\* failover, or after a stale file reference): the loop goes on
Switched(r) ==
    /\ req[r].pc \in {"switch", "refresh"}
    /\ Commit(r, NextAttempt(RouteState(r)), 0)

\* a sleep ends: after the flood wait or the transient-error delay the loop
\* goes on; after the retry delay download_route runs the logic again
Woke(r) ==
    /\ req[r].pc \in {"flood_sleep", "retry_sleep", "retry_delay"}
    /\ req[r].pc = "flood_sleep" => now >= req[r].wake_at
    /\ IF req[r].pc = "retry_delay"
       THEN Commit(r, ExecuteDownloadLogic([RouteState(r) EXCEPT !.rq.attempt = @ + 1]), 0)
       ELSE Commit(r, NextAttempt(RouteState(r)), 0)

\* get_media_message, its retry loop: get_messages raised FloodWait or a
\* network/RPC error before the last try; the delay is slept and get_messages
\* is called again
FetchPoints == {"get_message", "refetch", "switch", "refresh"}

MetaRetry(r) ==
    /\ req[r].pc \in FetchPoints
    /\ faults < fault_limit
    /\ req[r].current_retry < max_retries - 1
    /\ req' = [req EXCEPT ![r].current_retry = @ + 1]
    /\ faults' = faults + 1
    /\ UNCHANGED <<allocSide, files, round_robin_index, loop_time, chunkVars, managerVars,
                   fault_limit, serviceVars>>

\* get_media_message raised: it turns every failure into an HTTP error (429
\* and 503 on the last try of the retry loop, 503 for a client that is not
\* connected, 404 for FileIdInvalid, 410 for an expired link)
MetaErrors == {404, 410, 429, 503}

MetaError(r, status) ==
    /\ req[r].pc \in {"get_message", "refetch", "switch", "refresh"}
    /\ faults < fault_limit
    /\ LET s == RouteState(r)
       IN  CASE s.rq.pc \in {"get_message", "refetch"} ->
                  Commit(r, ExecuteExcept(s, HTTPError(status)), 1)
             [] s.rq.pc = "switch" -> Commit(r, LeaveLoop(s, HTTPError(status)), 1)
             [] OTHER -> Commit(r, LeaveLoop(s, NoExc), 1)

\* write_eof returned (its errors are swallowed); the finally releases the
\* client; an exception on its way out goes on to _execute_download_logic,
\* otherwise the bandwidth is recorded when bytes_streamed > 0
Eof(r) ==
    /\ req[r].pc = "eof"
    /\ LET s == ReleaseClientSafely(RouteState(r))
       IN  IF s.rq.pending.type # "none"
           THEN Commit(r, ExecuteExcept(s, s.rq.pending), 0)
           ELSE IF s.rq.bytes_streamed > 0
           THEN Commit(r, [s EXCEPT !.rq.pc = "bandwidth"], 0)
           ELSE Commit(r, [s EXCEPT !.rq.pc = "done",
                                    !.rq.result = [kind |-> "returned",
                                                   status |-> s.rq.status_code,
                                                   content_range |-> s.rq.content_range,
                                                   accept_ranges |-> s.rq.accept_ranges]], 0)

\* add_bandwidth_usage(bytes_streamed) returned; the response is returned
AddBandwidthUsage(r) ==
    /\ req[r].pc = "bandwidth"
    /\ LET s == RouteState(r)
       IN  Commit(r, [s EXCEPT !.rq.pc = "done",
                               !.rq.credited = @ + s.rq.bytes_streamed,
                               !.rq.result = [kind |-> "returned",
                                              status |-> s.rq.status_code,
                                              content_range |-> s.rq.content_range,
                                              accept_ranges |-> s.rq.accept_ranges]], 0)

\* the request's task is cancelled while suspended (task.cancel() from
\* stream_tracker.cancel_all_streams or from the server). Inside the streaming
\* try the finally clauses run; before it nothing catches CancelledError.
\* A cancellation during response.write is WriteFails.
CancelPoints == {"get_message", "fallback", "refetch", "prepare", "read", "switch",
                 "refresh", "flood_sleep", "retry_sleep", "retry_delay", "eof",
                 "bandwidth"}

Cancel(r) ==
    /\ req[r].pc \in CancelPoints
    /\ faults < fault_limit
    /\ LET s == RouteState(r)
       IN  CASE s.rq.pc \in {"read", "switch", "refresh", "flood_sleep", "retry_sleep"} ->
                  Commit(r, LeaveLoop(s, CancelledError), 1)
             [] s.rq.pc = "eof" ->
                  Commit(r, ExecuteExcept(ReleaseClientSafely(s), CancelledError), 1)
             [] OTHER -> Commit(r, ExecuteExcept(s, CancelledError), 1)

\* the clock advances while an expiry or a flood-wait sleep can observe it
RouteTick ==
    /\ now < Horizon
    /\ \/ \E c \in Clients : flood_wait_until[c] # NoFlood
       \/ \E r \in Requests : req[r].pc = "flood_sleep"
    /\ now' = now + 1
    /\ UNCHANGED <<connected, allocVars, last, routeVars, chunkVars, managerVars, fault_limit, serviceVars>>

\* the Range headers of the concurrent requests: none, and bytes=5-2
RouteHeaders == {<<>>, <<"b", "5", "-", "2">>}

RouteFiles == [m \in Messages |-> [file_size |-> TaskFileSize(m), has_media |-> TRUE]]

InitRoute ==
    /\ connected = [c \in Clients |-> TRUE]
    /\ now = 0
    /\ AllocInit
    /\ last = NoCall
    /\ ChunkIdle
    /\ ManagerIdle
    /\ files = RouteFiles
    /\ req \in [Requests -> {NewRequest(EncodeMessageId(m), h) :
                                m \in Messages, h \in RouteHeaders}]
    /\ round_robin_index = 0
    /\ faults = 0
    /\ fault_limit = MaxFaults
    /\ ServiceIdle
    /\ loop_time = 0

NextRoute ==
    \/ \E r \in Requests : RateLimited(r)
    \/ \E r \in Requests : BandwidthExceeded(r)
    \/ \E r \in Requests : Arrive(r)
    \/ \E r \in Requests : GotMessage(r)
    \/ \E r \in Requests : Fallback(r)
    \/ \E r \in Requests : Refetched(r)
    \/ \E r \in Requests : Prepared(r)
    \/ \E r \in Requests : PrepareFails(r)
    \/ \E r \in Requests : ReadOk(r)
    \/ \E r \in Requests, kind \in ReadErrors, secs \in 1..MaxFloodWait :
          ReadError(r, kind, IF kind = "FloodWait" THEN secs ELSE 1)
    \/ \E r \in Requests : WriteOk(r)
    \/ \E r \in Requests : WriteFails(r)
    \/ \E r \in Requests : Switched(r)
    \/ \E r \in Requests : Woke(r)
    \/ \E r \in Requests, status \in MetaErrors : MetaError(r, status)
    \/ \E r \in Requests : Eof(r)
    \/ \E r \in Requests : AddBandwidthUsage(r)
    \/ \E r \in Requests : Cancel(r)
    \/ RouteTick

SpecRoute == InitRoute /\ [][NextRoute]_vars

\* ------------------------------------------- /dl, one request, no failure
\* Range headers: bytes=<start>-<end> with each side a number, empty or not a
\* number, headers without '-', and a unit other than bytes
StartStrs == {<<>>, <<"x">>} \cup {Str(n) : n \in 0..MaxFileSize}
EndStrs == {<<>>, <<"x">>, <<"-", "1">>} \cup {Str(n) : n \in 0..(MaxFileSize + 4)}
RangeHeaders ==
    {<<>>, <<"x", "0", "-", "0">>}
        \cup {<<"b">> \o s \o <<"-">> \o e : s \in StartStrs, e \in EndStrs}
        \cup {<<"b">> \o s : s \in StartStrs}

\* a message holds a file of some size (get_file_attr), or no media at all
ResponseFiles ==
    {[file_size |-> n, has_media |-> TRUE] : n \in 0..MaxFileSize}
        \cup {[file_size |-> 0, has_media |-> FALSE]}

InitResp ==
    /\ connected = [c \in Clients |-> TRUE]
    /\ now = 0
    /\ AllocInit
    /\ last = NoCall
    /\ ChunkIdle
    /\ ManagerIdle
    /\ \E f \in ResponseFiles : files = [m \in Messages |-> f]
    /\ \E h \in RangeHeaders :
          req = [r \in Requests |-> IF r = 1 THEN NewRequest(EncodeMessageId(1), h) ELSE OffRequest]
    /\ round_robin_index = 0
    /\ faults = 0
    /\ fault_limit = MaxFaults
    /\ ServiceIdle
    /\ loop_time = 0

NextResp ==
    \/ \E r \in Requests : Arrive(r)
    \/ \E r \in Requests : GotMessage(r)
    \/ \E r \in Requests : Refetched(r)
    \/ \E r \in Requests : Prepared(r)
    \/ \E r \in Requests : ReadOk(r)
    \/ \E r \in Requests : WriteOk(r)
    \/ \E r \in Requests : Eof(r)
    \/ \E r \in Requests : AddBandwidthUsage(r)

SpecResp == InitResp /\ [][NextResp]_vars

\* ------------------------------- /dl, one request, upstream reads may stall
\* One request for a whole file (no Range header), of any size, run as in
\* SpecResp with its scheduling: the event loop runs every step
\* that is ready, so each step of the handler other than the upstream read is
\* taken when it stays enabled (weak fairness). The upstream read
\* (stream_media) returns when Telegram answers: nothing makes it return, so
\* ReadOk carries no fairness condition. No step of the handler is enabled by
\* the passing of time while a read is awaited: STREAM_TIMEOUT is read by a
\* log message only, and stream_file_chunks is awaited without a timeout.
InitStall ==
    /\ connected = [c \in Clients |-> TRUE]
    /\ now = 0
    /\ AllocInit
    /\ last = NoCall
    /\ ChunkIdle
    /\ ManagerIdle
    /\ \E f \in ResponseFiles : files = [m \in Messages |-> f]
    /\ req = [r \in Requests |->
                 IF r = 1 THEN NewRequest(EncodeMessageId(1), <<>>) ELSE OffRequest]
    /\ round_robin_index = 0
    /\ faults = 0
    /\ fault_limit = MaxFaults
    /\ ServiceIdle
    /\ loop_time = 0

\* The fair steps are those that can follow a read: Arrive and GotMessage
\* come before the first read of a request and are not enabled after it.
StepNotRead ==
    \E r \in Requests :
        \/ Refetched(r)
        \/ Prepared(r)
        \/ WriteOk(r)
        \/ Eof(r)
        \/ AddBandwidthUsage(r)

SpecStall == InitStall /\ [][NextResp]_vars /\ WF_vars(StepNotRead)

\* ------------------------------------ /dl, one request, upstream failures
\* One request, for the whole file or a part of it, with up to MaxFaults
\* failures of the awaited calls: reads that raise, writes that fail,
\* metadata fetches that raise, a prepare that fails, a cancellation.
FaultHeaders == {<<>>, <<"b", "1", "-">>, <<"b", "2", "-", "4">>}

InitFault ==
    /\ connected = [c \in Clients |-> TRUE]
    /\ now = 0
    /\ AllocInit
    /\ last = NoCall
    /\ ChunkIdle
    /\ ManagerIdle
    /\ \E f \in ResponseFiles : files = [m \in Messages |-> f]
    /\ \E h \in FaultHeaders :
          req = [r \in Requests |->
                    IF r = 1 THEN NewRequest(EncodeMessageId(1), h) ELSE OffRequest]
    /\ round_robin_index = 0
    /\ faults = 0
    /\ fault_limit = MaxFaults
    /\ ServiceIdle
    /\ loop_time = 0

NextFault ==
    \/ \E r \in Requests : Arrive(r)
    \/ \E r \in Requests : GotMessage(r)
    \/ \E r \in Requests : Refetched(r)
    \/ \E r \in Requests : Prepared(r)
    \/ \E r \in Requests : PrepareFails(r)
    \/ \E r \in Requests : ReadOk(r)
    \/ \E r \in Requests, kind \in ReadErrors, secs \in 1..MaxFloodWait :
          ReadError(r, kind, IF kind = "FloodWait" THEN secs ELSE 1)
    \/ \E r \in Requests : WriteOk(r)
    \/ \E r \in Requests : WriteFails(r)
    \/ \E r \in Requests : Switched(r)
    \/ \E r \in Requests : Woke(r)
    \/ \E r \in Requests, status \in MetaErrors : MetaError(r, status)
    \/ \E r \in Requests : MetaRetry(r)
    \/ \E r \in Requests : Eof(r)
    \/ \E r \in Requests : AddBandwidthUsage(r)
    \/ \E r \in Requests : Cancel(r)
    \/ RouteTick

SpecFault == InitFault /\ [][NextFault]_vars

\* ------------------------------- /dl, one request, enough failures to retry
\* One request for a whole file, small (served by the primary) or large
\* (served by a worker), with up to RetryFaults failures:
\* enough for every retry loop of the route to use up its tries.
InitRetry ==
    /\ connected = [c \in Clients |-> TRUE]
    /\ now = 0
    /\ AllocInit
    /\ last = NoCall
    /\ ChunkIdle
    /\ ManagerIdle
    /\ \E n \in {1, small_file_threshold_bytes + 1} :
          files = [m \in Messages |-> [file_size |-> n, has_media |-> TRUE]]
    /\ req = [r \in Requests |->
                 IF r = 1 THEN NewRequest(EncodeMessageId(1), <<>>) ELSE OffRequest]
    /\ round_robin_index = 0
    /\ faults = 0
    /\ fault_limit = RetryFaults
    /\ ServiceIdle
    /\ loop_time = 0

SpecRetry == InitRetry /\ [][NextFault]_vars

\* --------------------------------- /dl, one request, any link, no failure
\* The links a request can come with: the ones encode_message_id makes for
\* the message ids 1..MaxMessageId, and every text of at most MaxLinkLen
\* characters over LinkChars ("=" is outside the base64url alphabet). The
\* texts are those whose decoded bytes are ASCII or not UTF-8 at all, the
\* texts that IntOfBytes covers.
LinkChars == <<"M", "w", "T", "I", "D", "=">>
RECURSIVE LinkTexts(_)
LinkTexts(n) ==
    IF n = 0 THEN {<<>>}
    ELSE LinkTexts(n - 1)
            \cup {t \o <<LinkChars[i]>> : t \in LinkTexts(n - 1), i \in 1..Len(LinkChars)}
AsciiOrNotUtf8(e) ==
    \/ \E i \in 1..Len(e) : ~IsB64Char(e[i])
    \/ LET decoded == UrlsafeB64Decode(e \o Padding(e))
       IN  \/ ~decoded.ok
           \/ \A i \in 1..Len(decoded.bytes) : decoded.bytes[i] < 128
           \/ ~Utf8Valid(decoded.bytes)
LinkIds ==
    {EncodeMessageId(m) : m \in 1..MaxMessageId}
        \cup {e \in LinkTexts(MaxLinkLen) : AsciiOrNotUtf8(e)}

\* every message id the decoder can return has a file in the log channel
AdmitFiles ==
    [m \in 1..MaxDecodedMessageId |-> [file_size |-> TaskFileSize(m), has_media |-> TRUE]]

InitAdmit ==
    /\ connected = [c \in Clients |-> TRUE]
    /\ now = 0
    /\ AllocInit
    /\ last = NoCall
    /\ ChunkIdle
    /\ ManagerIdle
    /\ files = AdmitFiles
    /\ \E e \in LinkIds :
          req = [r \in Requests |-> IF r = 1 THEN NewRequest(e, <<>>) ELSE OffRequest]
    /\ round_robin_index = 0
    /\ faults = 0
    /\ fault_limit = MaxFaults
    /\ ServiceIdle
    /\ loop_time = 0

NextAdmit ==
    \/ \E r \in Requests : RateLimited(r)
    \/ \E r \in Requests : BandwidthExceeded(r)
    \/ \E r \in Requests : Arrive(r)
    \/ \E r \in Requests : GotMessage(r)
    \/ \E r \in Requests : Refetched(r)
    \/ \E r \in Requests : Prepared(r)
    \/ \E r \in Requests : ReadOk(r)
    \/ \E r \in Requests : WriteOk(r)
    \/ \E r \in Requests : Eof(r)
    \/ \E r \in Requests : AddBandwidthUsage(r)

SpecAdmit == InitAdmit /\ [][NextAdmit]_vars

\* ------------------------------------------------------- claims on /dl
\* the request has been through the header computation of
\* _stream_file_to_response
HeadersComputed(r) == req[r].pc \notin {"off", "new", "get_message", "fallback", "refetch"}
Terminated(r) == req[r].pc \in {"done", "cancelled"}
\* the request is inside stream_file_chunks, reading through its streamer_client
Streaming(r) == req[r].pc \in {"read", "write"}
Count(seq, c) == Cardinality({i \in 1..Len(seq) : seq[i] = c})

\* the start and the end a Range header names, end defaulting to size-1
RangeBounds(h, size) ==
    LET range_spec == Tail(h)
        d == FirstDash(range_spec)
        start_str == SubSeq(range_spec, 1, d - 1)
        end_str == SubSeq(range_spec, d + 1, Len(range_spec))
    IN  IF Len(h) > 0 /\ h[1] = "b" /\ d > 0 /\ IntParse(start_str).ok
           /\ (Len(end_str) = 0 \/ IntParse(end_str).ok)
        THEN [ok |-> TRUE, start |-> IntParse(start_str).value,
              end |-> IF Len(end_str) = 0 THEN size - 1 ELSE IntParse(end_str).value]
        ELSE [ok |-> FALSE, start |-> 0, end |-> 0]

\* ------------------------------------------------------------------ C2
\* C2 as stated: two requests are never inside the chunk stream on the same
\* connection at the same time.
C2_ExclusiveUse ==
    \A r1, r2 \in Requests :
        (r1 # r2 /\ Streaming(r1) /\ Streaming(r2))
            => req[r1].streamer_client # req[r2].streamer_client

\* two requests read through one connection; the second was handed it by the
\* pool's round robin after its acquire had failed
C2_Witness ==
    \E r1, r2 \in Requests :
        /\ r1 # r2
        /\ Streaming(r1)
        /\ Streaming(r2)
        /\ req[r1].streamer_client = req[r2].streamer_client
        /\ req[r1].acquired = <<req[r1].streamer_client>>
        /\ req[r2].acquired = <<>>

\* ------------------------------------------------------------------ C3
\* C3 as stated: a request whose only failure was a rate limit in the middle
\* of its stream, answered by a failover to an alternative connection, ends
\* with the response returned and a body that is exactly source bytes
\* from..until, each once.
C3_FailoverResumes ==
    \A r \in Requests :
        (req[r].pc = "done" /\ faults = 1 /\ Len(req[r].acquired) = 2)
            => /\ req[r].result.kind = "returned"
               /\ req[r].written = SourceBytes(req[r].from_bytes, req[r].until_bytes)

\* a 3-byte file: the rate limit came after bytes 0..1 were written, the
\* failover started again at byte 0
C3_Witness ==
    \E r \in Requests :
        /\ req[r].pc = "done"
        /\ faults = 1
        /\ Len(req[r].acquired) = 2
        /\ req[r].result.kind = "returned"
        /\ req[r].file_size = 3
        /\ req[r].written = <<0, 1, 0, 1, 2>>

\* ------------------------------------------------------------------ C6
\* C6: for Range bytes=s-e, or bytes=s- (e = size-1), with 0 <= s <= e < size,
\* the response is 206 with Content-Range 'bytes s-e/size' and Content-Length
\* e-s+1; with no Range header it is 200 with Content-Length size; no body
\* byte is written before the headers are sent, and once sent the status and
\* the headers do not change.
C6_HeadersOf(r) ==
    LET rq == req[r]
        size == rq.file_size
        h == rq.range_header
    IN  (HeadersComputed(r) /\ rq.has_media) =>
            /\ \A s, e \in 0..MaxFileSize :
                  (/\ s <= e
                   /\ e < size
                   /\ \/ h = <<"b">> \o Str(s) \o <<"-">> \o Str(e)
                      \/ e = size - 1 /\ h = <<"b">> \o Str(s) \o <<"-">>)
                  => /\ rq.status_code = 206
                     /\ rq.content_range
                            = <<"b">> \o Str(s) \o <<"-">> \o Str(e) \o <<"/">> \o Str(size)
                     /\ IntParse(rq.content_length) = [ok |-> TRUE, value |-> e - s + 1]
                     /\ rq.pc = "done" => rq.result.kind = "returned"
            /\ h = <<>> =>
                  /\ rq.status_code = 200
                  /\ rq.content_range = <<>>
                  /\ IntParse(rq.content_length) = [ok |-> TRUE, value |-> size]
                  /\ rq.pc = "done" => rq.result.kind = "returned"
            /\ Len(rq.written) > 0 => rq.prepared

C6_RangeResponse ==
    /\ [](\A r \in Requests : C6_HeadersOf(r))
    /\ [][\A r \in Requests : req[r].prepared =>
             /\ req'[r].prepared
             /\ req'[r].status_code = req[r].status_code
             /\ req'[r].content_range = req[r].content_range
             /\ req'[r].content_length = req[r].content_length]_vars

\* bytes=0- on a 10-byte file: 206, 'bytes 0-9/10', the ten bytes sent
C6_Witness ==
    /\ req[1].pc = "done"
    /\ req[1].range_header = <<"b", "0", "-">>
    /\ req[1].file_size = 10
    /\ req[1].status_code = 206
    /\ req[1].content_range = <<"b", "0", "-", "9", "/", "1", "0">>
    /\ req[1].content_length = <<"1", "0">>
    /\ req[1].written = SourceBytes(0, 9)

\* ------------------------------------------------------------------ C7
\* C7 as stated: a Range header whose start and end (end defaulting to size-1)
\* do not satisfy 0 <= start <= end < size never gets a 206; it is answered 416
\* with 'Content-Range: bytes */size' and nothing is streamed.
C7_StrictRange ==
    \A r \in Requests :
        LET rq == req[r]
            b == RangeBounds(rq.range_header, rq.file_size)
        IN  (/\ HeadersComputed(r)
             /\ rq.has_media
             /\ b.ok
             /\ ~(0 <= b.start /\ b.start <= b.end /\ b.end < rq.file_size))
            => /\ rq.status_code # 206
               /\ rq.written = <<>>
               /\ rq.pc = "done" =>
                     /\ rq.result.kind = "raised"
                     /\ rq.result.status = 416
                     /\ rq.result.content_range = <<"b", "*", "/">> \o Str(rq.file_size)

\* bytes=0-1 on a 1-byte file (end = size) is answered 206 'bytes 0-0/1'
C7_Witness ==
    /\ req[1].pc = "done"
    /\ req[1].range_header = <<"b", "0", "-", "1">>
    /\ req[1].file_size = 1
    /\ req[1].result = [kind |-> "returned", status |-> 206,
                        content_range |-> <<"b", "0", "-", "0", "/", "1">>,
                        accept_ranges |-> "bytes"]
    /\ req[1].written = <<0>>

\* ------------------------------------------------------------------ C8
\* C8 as stated: when a request that acquired a connection has ended (response
\* returned or HTTP error raised), release was called for the connection it
\* last acquired as many times as it acquired it: once per acquire, never
\* twice.
C8_ReleasedExactlyOnce ==
    \A r \in Requests :
        (req[r].pc = "done" /\ Len(req[r].acquired) > 0)
            => LET c == req[r].acquired[Len(req[r].acquired)]
               IN  Count(req[r].released, c) = Count(req[r].acquired, c)

\* a request answered 416 released the connection it acquired twice
C8_Witness ==
    \E r \in Requests :
        /\ req[r].pc = "done"
        /\ req[r].result.status = 416
        /\ Len(req[r].acquired) = 1
        /\ req[r].released = <<req[r].acquired[1], req[r].acquired[1]>>

\* ------------------------------------------------------------------ C9
\* C9 as stated: once a request has terminated, by any path including a
\* cancellation, no connection it acquired is still recorded Busy with its task
\* id (unless another request in flight with the same task id holds it).
C9_NoLeak ==
    \A r \in Requests :
        Terminated(r) =>
            \A i \in 1..Len(req[r].acquired) :
                LET c == req[r].acquired[i]
                IN  \/ ~(client_states[c] = "busy" /\ client_tasks[c] = req[r].task_id)
                    \/ \E r2 \in Requests :
                          /\ r2 # r
                          /\ ~Terminated(r2)
                          /\ req[r2].task_id = req[r].task_id
                          /\ req[r2].streamer_client = c

\* a request cancelled while re-fetching the message left its connection Busy
\* with its task id; no other request has started
C9_Witness ==
    \E r \in Requests :
        /\ req[r].pc = "cancelled"
        /\ Len(req[r].acquired) = 1
        /\ req[r].released = <<>>
        /\ client_states[req[r].acquired[1]] = "busy"
        /\ client_tasks[req[r].acquired[1]] = req[r].task_id
        /\ \A r2 \in Requests : r2 # r => req[r2].pc = "new"

\* ------------------------------------------------------------------ C10
\* C10 as stated: when a request has ended, the bytes credited to the
\* bandwidth tracker are the bytes written to the response.
C10_CreditEqualsWritten ==
    \A r \in Requests :
        req[r].pc = "done" => req[r].credited = Len(req[r].written)

\* a response was returned with bytes written and nothing credited
C10_Witness ==
    \E r \in Requests :
        /\ req[r].pc = "done"
        /\ req[r].result.kind = "returned"
        /\ Len(req[r].written) > 0
        /\ req[r].credited = 0

\* ------------------------------------------------------------------ C1
\* what acquire leaves behind for the client c it returned to task t
AcquirePost(c, t) == client_states'[c] = "busy" /\ client_tasks'[c] = t

NoUnexpiredFloodWait(c) == ~(flood_wait_until[c] # NoFlood /\ now < flood_wait_until[c])

\* C1 as stated: acquire only returns a connection that, when the call is made,
\* is connected, has status Idle and has no unexpired rate-limit expiry; on
\* return it is Busy and bound to the task.
C1_AcquireReturnsIdle ==
    [][(last'.op = "acquire" /\ last'.ret # NoClient) =>
          \A t \in TaskIds : Acquire(t) =>
              /\ connected[last'.ret]
              /\ StatusOf(AllocState, last'.ret) = "idle"
              /\ NoUnexpiredFloodWait(last'.ret)
              /\ AcquirePost(last'.ret, t)]_vars

\* C1 amended: the connection acquire returns is connected, has no unexpired
\* rate-limit expiry, and its recorded status is Idle, or RateLimited with an
\* expiry that has already passed (acquire itself resets it); on return it is
\* Busy and bound to the task.
C1_AcquireReturnsAvailable ==
    [][(last'.op = "acquire" /\ last'.ret # NoClient) =>
          \A t \in TaskIds : Acquire(t) =>
              /\ connected[last'.ret]
              /\ NoUnexpiredFloodWait(last'.ret)
              /\ \/ StatusOf(AllocState, last'.ret) = "idle"
                 \/ /\ StatusOf(AllocState, last'.ret) = "flood_wait"
                    /\ flood_wait_until[last'.ret] # NoFlood
                    /\ now >= flood_wait_until[last'.ret]
              /\ AcquirePost(last'.ret, t)]_vars

\* acquire has just returned a connection whose recorded status was RateLimited
C1_Witness ==
    /\ last.op = "acquire"
    /\ last.ret # NoClient
    /\ last.was = "flood_wait"
    /\ client_states[last.ret] = "busy"

\* ------------------------------------------------------------------ C4
ChunkFinished == chunk_run.pc \in {"done", "ValueError"}

\* C4 as stated: for every 0 <= from <= until < size and every chunk size, the
\* concatenation of the slices the engine yields is exactly the source bytes
\* from..until, until-from+1 of them.
C4_RoundTripAnySize ==
    ChunkFinished =>
        /\ chunk_run.out = SourceBytes(chunk_req.from_bytes, chunk_req.until_bytes)
        /\ Len(chunk_run.out) = chunk_req.until_bytes - chunk_req.from_bytes + 1

\* C4 amended: the same, for files that stream_file_chunks accepts: it refuses a
\* file larger than 2 GB before any read (yield_file has no such limit), and
\* that is the only case in which the engine yields nothing.
C4_RoundTrip ==
    /\ chunk_run.pc = "done" =>
           /\ chunk_run.out = SourceBytes(chunk_req.from_bytes, chunk_req.until_bytes)
           /\ Len(chunk_run.out) = chunk_req.until_bytes - chunk_req.from_bytes + 1
    /\ chunk_run.pc = "ValueError" =>
           /\ chunk_req.engine = "stream_file_chunks"
           /\ chunk_req.file_size > TelegramMaxFileSize
           /\ chunk_run.out = <<>>

\* a range of three parts, cut at both ends, has been streamed by stream_file_chunks
C4_Witness ==
    /\ chunk_run.pc = "done"
    /\ chunk_req.engine = "stream_file_chunks"
    /\ chunk_run.part_count = 3
    /\ chunk_run.first_part_cut > 0
    /\ chunk_run.last_part_cut < chunk_req.chunk_size
    /\ Len(chunk_run.out) = 4

\* ------------------------------------------------------------------ C5
\* C5: the aligned offset is a multiple of the chunk size; every read issued
\* is at a multiple of the chunk size with limit exactly the chunk size, the
\* i-th read at alignedOffset + (i-1) * chunkSize, and at most partCount reads
\* are issued.
C5_AlignedReads ==
    LET plan == CalculateChunkParameters(chunk_req.from_bytes, chunk_req.until_bytes,
                                         chunk_req.chunk_size)
    IN  chunk_run.pc \in {"read", "got", "done"} =>
            /\ plan.offset % chunk_req.chunk_size = 0
            /\ Len(chunk_run.reads) <= plan.part_count
            /\ \A i \in 1..Len(chunk_run.reads) :
                   /\ chunk_run.reads[i].offset % chunk_req.chunk_size = 0
                   /\ chunk_run.reads[i].limit = chunk_req.chunk_size
                   /\ chunk_run.reads[i].offset
                          = plan.offset + (i - 1) * chunk_req.chunk_size

\* three reads were issued for a range that starts inside a chunk
C5_Witness ==
    /\ chunk_run.pc = "done"
    /\ Len(chunk_run.reads) = 3
    /\ chunk_req.from_bytes % chunk_req.chunk_size # 0
    /\ chunk_run.reads[3].offset = chunk_run.reads[1].offset + 2 * chunk_req.chunk_size

\* ------------------------------------------------------------------ C11
\* C11 as stated: a request whose acquire failed with NoClientsAvailableError
\* (it is then at the fallback delay) goes nowhere but to a raised 503: it is
\* not retried and takes no connection to stream.
C11_AllocationFailureIs503 ==
    [][\A r \in Requests :
          (req[r].pc = "fallback" /\ req'[r] # req[r]) =>
              /\ req'[r].pc = "done"
              /\ req'[r].result.kind = "raised"
              /\ req'[r].result.status = 503
              /\ req'[r].streamer_client = NoClient]_vars

\* a request whose acquire failed was answered 200 with the whole file,
\* streamed through a connection it never acquired
C11_Witness ==
    \E r \in Requests :
        /\ req[r].pc = "done"
        /\ req[r].acquired = <<>>
        /\ req[r].streamer_client # NoClient
        /\ req[r].result.kind = "returned"
        /\ req[r].result.status = 200
        /\ req[r].written = SourceBytes(0, req[r].file_size - 1)

\* ------------------------------------------------------------------- C12
\* C12: a /dl request that admission control turns away (the rate limiter
\* answers 429, or the bandwidth limit answers 503) ends at that step: it is
\* never at a metadata lookup, it has acquired no client and holds none, no
\* task id was made for it, and the step leaves the allocator's tables, its
\* round-robin indices and the pool's round-robin index as they were; a
\* finished request takes no further step.
C12_RejectedTouchesNothing ==
    [][\A r \in Requests :
          /\ (RateLimited(r) \/ BandwidthExceeded(r)) =>
                /\ UNCHANGED <<allocVars, round_robin_index>>
                /\ req'[r].pc = "done"
                /\ req'[r].result.kind = "raised"
                /\ req'[r].result.status \in {429, 503}
                /\ req'[r].acquired = <<>>
                /\ req'[r].streamer_client = NoClient
                /\ req'[r].task_id = NoTask
          /\ req[r].pc = "done" => req'[r] = req[r]]_vars

\* C12 witness: a request with a valid link was turned away by the bandwidth
\* limit
C12_Witness ==
    \E r \in Requests :
        /\ req[r].pc = "done"
        /\ req[r].message_id # NoMessage
        /\ req[r].result.status = 503
        /\ req[r].acquired = <<>>
        /\ client_states = [c \in Clients |-> "none"]

\* ------------------------------------------------------------------- C13
\* the step of download_route on request r answers 400 and touches nothing
AnsweredBadRequest(r) ==
    /\ req'[r].pc = "done"
    /\ req'[r].result.kind = "raised"
    /\ req'[r].result.status = 400
    /\ req'[r].acquired = <<>>
    /\ req'[r].streamer_client = NoClient
    /\ req'[r].task_id = NoTask
    /\ UNCHANGED <<allocVars, round_robin_index>>

\* C13 as stated: when download_route handles a request whose link is empty,
\* too long or does not decode to a positive message id, it answers 400 at
\* that step, before any lookup or acquire; and the link made by
\* encode_message_id for any positive message id m is accepted and decoded
\* to m.
C13_EveryLinkRoundTrips ==
    [][\A r \in Requests :
          Arrive(r) =>
             LET e == req[r].encoded_id
             IN  /\ (Len(e) = 0 \/ Len(e) > MaxEncodedIdLen \/ DecodeMessageId(e) = NoMessage)
                        => AnsweredBadRequest(r)
                 /\ \A m \in 1..MaxMessageId :
                        e = EncodeMessageId(m)
                            => req'[r].message_id = m /\ req'[r].pc = "get_message"]_vars

\* C13 amended: the same, the round trip being for the message ids up to
\* the decoder's upper limit (2**63, MaxDecodedMessageId).
C13_LinkRoundTripsUpToLimit ==
    [][\A r \in Requests :
          Arrive(r) =>
             LET e == req[r].encoded_id
             IN  /\ (Len(e) = 0 \/ Len(e) > MaxEncodedIdLen \/ DecodeMessageId(e) = NoMessage)
                        => AnsweredBadRequest(r)
                 /\ \A m \in 1..MaxMessageId :
                        (m <= MaxDecodedMessageId /\ e = EncodeMessageId(m))
                            => req'[r].message_id = m /\ req'[r].pc = "get_message"]_vars

\* C13 witness: the link made for message 4 was decoded to 4 and its file
\* was streamed
C13_Witness ==
    \E r \in Requests :
        /\ req[r].encoded_id = EncodeMessageId(4)
        /\ req[r].message_id = 4
        /\ req[r].pc = "done"
        /\ req[r].result.kind = "returned"
        /\ req[r].written = SourceBytes(0, TaskFileSize(4) - 1)

\* ------------------------------------------------------------------- C14
\* the groups acquire works with in the current state, as sets, and the
\* number of connected clients
SmallPreferred == LET g == CalculateClientGroups(AllocState) IN {g.small[i] : i \in 1..Len(g.small)}
LargePreferred == LET g == CalculateClientGroups(AllocState) IN {g.large[i] : i \in 1..Len(g.large)}
ConnectedCount == Cardinality({c \in Clients : connected[c]})

\* C14 as stated: with at least two connected clients, acquire for a small
\* file returns a large-preferred client when no small-preferred client is
\* available and some large-preferred client has status Idle; acquire for a
\* large file returns a large-preferred client or fails, and fails when all
\* large-preferred clients are Busy.
C14_OverflowWhenIdle ==
    [][\A t \in TaskIds :
          (last'.op # "none" /\ ConnectedCount >= 2 /\ Acquire(t)) =>
              /\ (/\ FileCategory(TaskFileSize(t)) = "small"
                  /\ \A c \in SmallPreferred : ~IsClientAvailable(AllocState, c)
                  /\ \E c \in LargePreferred : StatusOf(AllocState, c) = "idle")
                    => last'.ret \in LargePreferred
              /\ FileCategory(TaskFileSize(t)) = "large"
                    => /\ last'.ret \in LargePreferred \cup {NoClient}
                       /\ last'.ret \notin SmallPreferred \ LargePreferred
                       /\ (\A c \in LargePreferred : StatusOf(AllocState, c) = "busy")
                             => /\ last'.ret = NoClient
                                /\ last'.op = "acquire:NoClientsAvailableError"]_vars

\* C14 amended: the same, with "available" (connected, no unexpired
\* rate-limit expiry, recorded status Idle or an expiry that has passed) in
\* place of "status Idle" for the large-preferred client.
C14_OverflowWhenAvailable ==
    [][\A t \in TaskIds :
          (last'.op # "none" /\ ConnectedCount >= 2 /\ Acquire(t)) =>
              /\ (/\ FileCategory(TaskFileSize(t)) = "small"
                  /\ \A c \in SmallPreferred : ~IsClientAvailable(AllocState, c)
                  /\ \E c \in LargePreferred : IsClientAvailable(AllocState, c))
                    => last'.ret \in LargePreferred
              /\ FileCategory(TaskFileSize(t)) = "large"
                    => /\ last'.ret \in LargePreferred \cup {NoClient}
                       /\ last'.ret \notin SmallPreferred \ LargePreferred
                       /\ (\A c \in LargePreferred : StatusOf(AllocState, c) = "busy")
                             => /\ last'.ret = NoClient
                                /\ last'.op = "acquire:NoClientsAvailableError"]_vars

\* C14 witness: acquire has just given a small-file task a large-preferred
\* client while every small-preferred client is Busy
C14_Witness ==
    /\ ConnectedCount >= 2
    /\ last.op = "acquire"
    /\ last.ret \in LargePreferred \ SmallPreferred
    /\ FileCategory(TaskFileSize(client_tasks[last.ret])) = "small"
    /\ \A c \in SmallPreferred : client_states[c] = "busy"

\* ------------------------------------------------------------------- C15
\* C15: an acquire that returns no client raises NoClientsAvailableError and
\* no other error, also with no client connected, and leaves the status and
\* the task of every client as they were.
C15_FailsWithNoClientsAvailable ==
    [][(last'.op # "none" /\ last'.op # "acquire") =>
          /\ last'.op = "acquire:NoClientsAvailableError"
          /\ last'.ret = NoClient
          /\ UNCHANGED <<client_states, client_tasks>>]_vars

\* C15 witness: acquire has just failed with NoClientsAvailableError while
\* clients are connected, all of its groups being Busy
C15_Witness ==
    /\ last.op = "acquire:NoClientsAvailableError"
    /\ ConnectedCount >= 2
    /\ \E c \in Clients : client_states[c] = "busy"

\* ------------------------------------------------------- claims on release
\* a step binds client c to a task
Binds(c) == client_tasks'[c] # NoTask /\ client_tasks'[c] # client_tasks[c]

\* C16: release(c, t) on a client bound to t, or to no task as it is after a
\* first release(c, t) and until the client is acquired again, leaves the
\* client Idle with no task recorded; a release(c, t) that repeats the call
\* of the step before, which found c bound to t, changes nothing in the
\* allocator; and a client is bound to a task by acquire and onRateLimited
\* only.
C16_ReleaseIdempotent ==
    [][\A c \in Clients :
          /\ \A t \in TaskIds :
                (last'.op = "release" /\ last'.ret = c /\ last'.task = t /\ ReleaseCall(c, t)) =>
                    /\ client_tasks[c] \in {t, NoTask}
                          => client_states'[c] = "idle" /\ client_tasks'[c] = NoTask
                    /\ last'.before = <<c, t, t>>
                          => /\ UNCHANGED allocVars
                             /\ client_states'[c] = "idle"
                             /\ client_tasks'[c] = NoTask
          /\ Binds(c) =>
                \/ last'.op = "acquire" /\ last'.ret = c /\ Acquire(client_tasks'[c])
                \/ \E f \in Clients \ {c} :
                      /\ flood_wait_until'[f] \in (now + 1)..(now + MaxFloodWait)
                      /\ OnFloodWait(f, flood_wait_until'[f] - now, client_tasks'[c])]_vars

\* C16 witness: the second of two release(c, t) calls in a row has returned,
\* the first having found c bound to t
C16_Witness ==
    /\ last.op = "release"
    /\ last.before = <<last.ret, last.task, last.task>>
    /\ last.held = NoTask
    /\ last.was = "idle"
    /\ client_states[last.ret] = "idle"
    /\ client_tasks[last.ret] = NoTask

\* C17: release(c, t) while a task other than t is recorded for c changes
\* nothing: c was Busy and stays Busy with the same task, and the statuses,
\* tasks, rate-limit table and round-robin indices are all unchanged.
C17_MismatchedReleaseIsNoOp ==
    [][\A c \in Clients, t \in TaskIds :
          (/\ last'.op = "release" /\ last'.ret = c /\ last'.task = t
           /\ client_tasks[c] \notin {t, NoTask}
           /\ ReleaseCall(c, t)) =>
              /\ client_states[c] = "busy"
              /\ client_states'[c] = "busy"
              /\ client_tasks'[c] = client_tasks[c]
              /\ UNCHANGED allocVars]_vars

\* C17 witness: a release with a task id other than the recorded one has
\* returned and the client is still Busy with the recorded task
C17_Witness ==
    /\ last.op = "release"
    /\ last.held \notin {last.task, NoTask}
    /\ client_states[last.ret] = "busy"
    /\ client_tasks[last.ret] = last.held
    /\ \E c \in Clients : flood_wait_until[c] # NoFlood

\* C19: in every state where two different clients hold tasks, releasing
\* them in either order gives the same allocator state: both Idle with no
\* task, every other entry (other clients' status and task, the rate-limit
\* table, the round-robin indices) as before.
C19_ReleasesCommute ==
    \A c1 \in Clients, c2 \in Clients :
        (c1 # c2 /\ client_tasks[c1] # NoTask /\ client_tasks[c2] # NoTask) =>
            LET t1 == client_tasks[c1]
                t2 == client_tasks[c2]
                a12 == ReleaseClient(ReleaseClient(AllocState, c1, t1), c2, t2)
                a21 == ReleaseClient(ReleaseClient(AllocState, c2, t2), c1, t1)
            IN  /\ a12 = a21
                /\ a12 = [AllocState EXCEPT
                            !.client_states[c1] = "idle", !.client_states[c2] = "idle",
                            !.client_tasks[c1] = NoTask, !.client_tasks[c2] = NoTask]

\* C19 witness: two clients that held tasks have just been released one after
\* the other, each with its own task id, and both are Idle with no task
C19_Witness ==
    /\ last.op = "release"
    /\ last.held = last.task
    /\ Len(last.before) = 3
    /\ last.before[1] # last.ret
    /\ last.before[2] = last.before[3]
    /\ last.before[2] # last.task
    /\ \A c \in {last.ret, last.before[1]} :
          client_states[c] = "idle" /\ client_tasks[c] = NoTask

\* ------------------------------------------------------------------- C18
\* request r is in flight and client c is allocated to it: r acquired c, streams
\* through it, and the allocator records c Busy with r's task id
InFlight(r) == req[r].pc \notin {"off", "new", "done", "cancelled"}
AllocatedTo(c, r) ==
    /\ InFlight(r)
    /\ req[r].streamer_client = c
    /\ Len(req[r].acquired) > 0
    /\ req[r].acquired[Len(req[r].acquired)] = c
    /\ Len(req[r].released) = 0
    /\ client_states[c] = "busy"
    /\ client_tasks[c] = req[r].task_id

\* C18: a step of one request leaves Busy, and bound to its task, every client
\* that is allocated to another request in flight.
C18_ForeignReleaseKeepsBusy ==
    [][\A r1 \in Requests, r2 \in Requests, c \in Clients :
          (/\ r1 # r2
           /\ AllocatedTo(c, r2)
           /\ req'[r2] = req[r2]
           /\ req'[r1] # req[r1])
              => client_states'[c] = "busy" /\ client_tasks'[c] = client_tasks[c]]_vars

\* C18 witness: two requests in flight with the same task id, one of them
\* holding a client
C18_Witness ==
    \E r1 \in Requests, r2 \in Requests, c \in Clients :
        /\ r1 # r2
        /\ AllocatedTo(c, r2)
        /\ InFlight(r1)
        /\ req[r1].task_id = req[r2].task_id
        /\ req[r1].streamer_client = c

\* ------------------------------------------------------------------- C20
\* the clients other than `failed` whose recorded status is Idle, in the
\* order the groups are searched for a file of this size
IdleInGroupOrder(failed, file_size) ==
    LET g == CalculateClientGroups(AllocState)
        order == IF FileCategory(file_size) = "small" THEN g.small \o g.large ELSE g.large
    IN  SelectSeq(order, LAMBDA c : c # failed /\ StatusOf(AllocState, c) = "idle")

\* C20: handle_flood_wait_retry returns (raises nothing), leaves the failed
\* client RateLimited with its expiry and no task, and returns either no
\* client, exactly when no other client of the groups is Idle, or the first
\* such client in group order, which was Idle and is now Busy with the task.
C20_HandoverToFirstIdle ==
    [][\A failed \in Clients, secs \in 1..MaxFloodWait, t \in TaskIds :
          (/\ last'.op = "none"
           /\ flood_wait_until'[failed] = now + secs
           /\ client_states'[failed] = "flood_wait"
           /\ OnFloodWait(failed, secs, t)) =>
              LET r == HandleFloodWaitRetry(AllocState, failed, secs, TaskFileSize(t), t)
                  idle == IdleInGroupOrder(failed, TaskFileSize(t))
              IN  /\ r.err = "none"
                  /\ client_tasks'[failed] = NoTask
                  /\ (r.ret = NoClient) <=> (Len(idle) = 0)
                  /\ r.ret # NoClient =>
                        /\ r.ret # failed
                        /\ StatusOf(AllocState, r.ret) = "idle"
                        /\ r.ret = idle[1]
                        /\ client_states'[r.ret] = "busy"
                        /\ client_tasks'[r.ret] = t]_vars

\* C20 witness: a client is RateLimited with an expiry ahead and no task, and
\* another client is Busy with a task
C20_Witness ==
    \E failed \in Clients, c \in Clients :
        /\ c # failed
        /\ client_states[failed] = "flood_wait"
        /\ flood_wait_until[failed] > now
        /\ client_tasks[failed] = NoTask
        /\ client_states[c] = "busy"
        /\ client_tasks[c] # NoTask

\* ------------------------------------------------------------------- C21
\* handle_flood_wait_retry(c, d) at time t records the expiry t + d for c and
\* clears the task of c, so a task recorded for c afterwards was bound by an
\* acquire or by the choice of c as an alternative.
\* C21: once the expiry D = t + d has been recorded for client c, c is bound
\* to no task (neither by acquire nor as an alternative) at any time before D,
\* whatever calls follow.
C21_OutUntilExpiry ==
    \A c \in Clients : \A D \in 1..(MaxTime + LongFloodWait) :
        [](flood_wait_until[c] = D => [](client_tasks[c] # NoTask => now >= D))

\* C21, second half: a client whose expiry has passed is returned by acquire
\* with the expiry entry still recorded (no sweep has removed it).
C21_Witness ==
    /\ last.op = "acquire"
    /\ last.ret # NoClient
    /\ last.was = "flood_wait"

\* ------------------------------------------------------------------- C22
SeqSet(s) == {s[i] : i \in 1..Len(s)}

\* C22: the groups an acquire computes from the N connected clients, in
\* all_clients order: N = 1, both groups are the single client; N = 2, the
\* first is small-preferred and the second large-preferred; N > 2, the first
\* floor(((N - 2) + (N mod 2)) / 2) are small-preferred and the rest
\* large-preferred (1/2 for N = 3, 1/3 for N = 4, 2/4 for N = 6); for N >= 2
\* the groups are non-empty, disjoint and cover the connected clients.
C22_PreferenceGroups ==
    (called.op = "acquire" /\ called.err # "IndexError") =>
        LET allc == PoolConnected
            N == Len(allc)
            small == called.small
            large == called.large
        IN  /\ N = 1 => small = allc /\ large = allc
            /\ N = 2 => small = <<allc[1]>> /\ large = <<allc[2]>>
            /\ N > 2 =>
                 /\ Len(small) = ((N - 2) + (N % 2)) \div 2
                 /\ small \o large = allc
            /\ N = 3 => Len(small) = 1 /\ Len(large) = 2
            /\ N = 4 => Len(small) = 1 /\ Len(large) = 3
            /\ N = 6 => Len(small) = 2 /\ Len(large) = 4
            /\ N >= 2 =>
                 /\ small # <<>> /\ large # <<>>
                 /\ SeqSet(small) \cap SeqSet(large) = {}
                 /\ SeqSet(small) \cup SeqSet(large) = SeqSet(allc)
                 /\ Len(small) + Len(large) = N

C22_Witness ==
    /\ called.op = "acquire"
    /\ Len(PoolConnected) = 6
    /\ Len(called.small) = 2
    /\ Len(called.large) = 4

\* ------------------------------------------------------------------- C23
\* C23: the index an acquire picks with is within the bounds of the list of
\* available members it picks from, and the client returned is the member at
\* that index; when the connected count differs from _last_client_count (the
\* count seen by the previous group calculation) both stored indices are reset
\* to 0 before the pick, so the pick uses index 0 and leaves the index of the
\* list it used at 1 mod its length and the other index at 0.
C23_IndexInBounds ==
    [][called'.op = "acquire" =>
          LET n == Len(PoolConnected)
              wrap == 1 % called'.len
          IN  /\ called'.ret # NoClient =>
                   /\ 0 <= called'.index /\ called'.index < called'.len
                   /\ called'.ret \in SeqSet(PoolConnected)
                   /\ called'.ret \in SeqSet(called'.small) \cup SeqSet(called'.large)
              /\ small_preferred_index' >= 0 /\ large_preferred_index' >= 0
              /\ last_client_count' = n
              /\ (n # last_client_count /\ called'.ret = NoClient) =>
                   small_preferred_index' = 0 /\ large_preferred_index' = 0
              /\ (n # last_client_count /\ called'.ret # NoClient) =>
                   /\ called'.index = 0
                   /\ \/ small_preferred_index' = wrap /\ large_preferred_index' = 0
                      \/ small_preferred_index' = 0 /\ large_preferred_index' = wrap
    ]_vars

\* an acquire found a stored index beyond the end of the list of available
\* members and picked within the list
C23_Witness ==
    /\ called.op = "acquire"
    /\ called.ret # NoClient
    /\ called.stored >= called.len
    /\ called.index < called.len

\* ------------------------------------------------------- claims on the pool
\* the connected workers of the manager, in worker_clients order
ConnectedWorkers == SelectSeq(pool.worker_clients, LAMBDA c : pool.is_connected[c])
PrimaryConnected ==
    pool.primary_client # NoClient /\ pool.is_connected[pool.primary_client]
NothingConnected == \A c \in PoolClients : ~pool.is_connected[c]

\* ------------------------------------------------------------------- C24
\* C24: get_streaming_client returns a connected worker whenever a worker is
\* connected; k calls in a row over k connected workers return each of them
\* once; it returns the primary only when no worker is connected and the
\* primary is; it raises NoClientsAvailableError exactly when nothing is
\* connected; the client returned is connected.
C24_SelectForStreaming ==
    called.op = "get_streaming_client" =>
        LET k == Len(ConnectedWorkers)
            n == Len(called.run)
        IN  /\ k > 0 => called.err = "none" /\ called.ret \in SeqSet(ConnectedWorkers)
            /\ (k > 0 /\ n >= k) =>
                   /\ {called.run[i] : i \in (n - k + 1)..n} = SeqSet(ConnectedWorkers)
                   /\ \A i, j \in (n - k + 1)..n : called.run[i] = called.run[j] => i = j
            /\ (called.err = "none" /\ called.ret = pool.primary_client) <=>
                   (k = 0 /\ PrimaryConnected)
            /\ called.err = "NoClientsAvailableError" <=> NothingConnected
            /\ called.err = "none" <=> called.ret # NoClient
            /\ called.ret # NoClient => pool.is_connected[called.ret]

\* three calls in a row over three connected workers
C24_Witness ==
    /\ called.op = "get_streaming_client"
    /\ Len(ConnectedWorkers) = 3
    /\ Len(called.run) >= 3

\* ------------------------------------------------------------------- C25
\* C25: get_alternative_streaming_client(exclude_client) returns neither the
\* excluded client nor a disconnected one: a connected worker other than the
\* excluded client if there is one, else the primary if it is connected and
\* is not the excluded client, else None; the index used is within the
\* filtered worker list.
C25_SelectAlternative ==
    called.op = "get_alternative_streaming_client" =>
        LET others == SelectSeq(ConnectedWorkers, LAMBDA c : c # called.arg)
        IN  /\ called.ret # called.arg
            /\ called.ret # NoClient => pool.is_connected[called.ret]
            /\ others # <<>> =>
                   /\ called.ret \in SeqSet(others)
                   /\ called.len = Len(others)
                   /\ 0 <= called.index /\ called.index < called.len
                   /\ called.ret = others[called.index + 1]
                   /\ pool.round_robin_index = called.index
            /\ (others = <<>> /\ PrimaryConnected /\ pool.primary_client # called.arg) =>
                   called.ret = pool.primary_client
            /\ (others = <<>> /\ ~(PrimaryConnected /\ pool.primary_client # called.arg)) =>
                   called.ret = NoClient

\* a connected worker is excluded and another worker is returned
C25_Witness ==
    /\ called.op = "get_alternative_streaming_client"
    /\ called.arg \in SeqSet(ConnectedWorkers)
    /\ called.ret \in SeqSet(ConnectedWorkers)
    /\ called.index > 0

\* ------------------------------------------------------------------- C26
\* C26: every stop_clients call, on a manager that started, that never
\* started or that was stopped before, returns without error and leaves no
\* primary, no workers, no all_clients entries and no ByteStreamer; a
\* get_streaming_client made then raises NoClientsAvailableError.
C26_StopLeavesNothing ==
    called.op = "stop_clients" =>
        /\ called.err = "none"
        /\ pool.primary_client = NoClient
        /\ pool.worker_clients = <<>>
        /\ pool.all_clients = <<>>
        /\ pool.streamers = {}
        /\ GetStreamingClient(pool).err = "NoClientsAvailableError"
        /\ GetStreamingClient(pool).ret = NoClient

\* stop_clients called a second time in a row
C26_Witness ==
    /\ called.op = "stop_clients"
    /\ called.again
    /\ called.len = 0

\* ------------------------------------------------------------------- C27
\* C27: start_clients on a manager holding no client. If the primary fails to
\* start (start() or get_me() raises) the call raises and no worker is
\* started, registered or given a ByteStreamer; if the primary starts the
\* call returns whatever workers fail, and all_clients is the primary
\* followed by the workers that started and are connected, in token order,
\* worker_clients being those workers, each client of all_clients having one
\* ByteStreamer of its own and no other ByteStreamer being held.
C27_StartClients ==
    called.op = "start_clients" =>
        LET in == called.input
            tokens == [i \in 1..NumTokens |-> WorkerOf(i - 1)]
            up_workers == SelectSeq(tokens, LAMBDA c : c \in in.started \ in.lost)
        IN  /\ in.primary # "ok" =>
                 /\ called.err # "none"
                 /\ pool.worker_clients = <<>>
                 /\ SeqSet(pool.all_clients) \cap PoolWorkers = {}
                 /\ \A c \in PoolWorkers : ~pool.is_connected[c]
                 /\ \A e \in pool.streamers : e[2] \notin PoolWorkers
            /\ in.primary = "ok" =>
                 /\ called.err = "none"
                 /\ pool.primary_client = PrimaryId
                 /\ pool.all_clients = <<PrimaryId>> \o up_workers
                 /\ pool.worker_clients = up_workers
                 /\ \A c \in SeqSet(pool.all_clients) : pool.is_connected[c]
                 /\ \A c \in SeqSet(pool.all_clients) :
                        Cardinality({e \in pool.streamers : e[2] = c}) = 1
                 /\ \A e \in pool.streamers : e[2] \in SeqSet(pool.all_clients)
                 /\ \A e, f \in pool.streamers : e[1] = f[1] => e = f

\* the primary started, one worker failed, one was lost and two are registered
C27_Witness ==
    /\ called.op = "start_clients"
    /\ called.err = "none"
    /\ Len(pool.worker_clients) = 2
    /\ called.input.lost # {}
    /\ called.input.started # PoolWorkers

\* ------------------------------------------------------------------- C28
\* C28: get_file_properties(message_id), the lookup being answered: on a hit
\* the cached FileId is returned with no get_messages call; on a miss one
\* lookup is made, its result stored under message_id and returned, unless
\* the message does not exist (it is empty): then FileNotFoundError is raised
\* and no entry is added.
C28_Resolve ==
    (called.op = "get_file_properties" /\ called.err # "RPCError") =>
        LET m == called.arg
            message == files[m]
        IN  /\ called.hit =>
                 /\ called.lookups = 0
                 /\ called.err = "none"
                 /\ DictHas(cached_file_ids, m)
                 /\ called.file_id = DictGet(cached_file_ids, m)
            /\ ~called.hit => called.lookups = 1
            /\ (~called.hit /\ ~message.empty) =>
                 /\ called.err = "none"
                 /\ DictHas(cached_file_ids, m)
                 /\ DictGet(cached_file_ids, m) = called.file_id
                 /\ called.file_id = [message_id |-> m, file_size |-> message.file_size]
            /\ (~called.hit /\ message.empty) =>
                 /\ called.err = "FileNotFoundError"
                 /\ ~DictHas(cached_file_ids, m)

\* a miss on a message that holds a file: looked up, stored and returned
C28_Witness ==
    /\ called.op = "get_file_properties"
    /\ ~called.hit
    /\ called.err = "none"
    /\ called.lookups = 1
    /\ DictHas(cached_file_ids, called.arg)

\* ------------------------------------------------------------------- C29
\* C29 as stated: every response of GET /dl with status 200, 206, 416, 400,
\* 404, 410, 503 or 504 carries the header Accept-Ranges: bytes.
C29_AcceptRangesAlways ==
    \A r \in Requests :
        (/\ req[r].pc = "done"
         /\ req[r].result.kind \in {"returned", "raised"}
         /\ req[r].result.status \in {200, 206, 416, 400, 404, 410, 503, 504})
            => req[r].result.accept_ranges = "bytes"

\* a 206 sent with Accept-Ranges: bytes
C29_Witness ==
    /\ req[1].pc = "done"
    /\ req[1].result.kind = "returned"
    /\ req[1].result.status = 206
    /\ req[1].result.accept_ranges = "bytes"

\* ------------------------------------------------------------------- C30
\* C30 as stated: a download whose upstream read is awaited is ended in the
\* end, whether or not the read ever returns, and the client it held is
\* released: with no byte written yet as a 504, else as the response begun.
C30_StalledReadEnds ==
    \A r \in Requests :
        (req[r].pc = "read") ~>
            (/\ req[r].pc = "done"
             /\ Len(req[r].released) > 0
             /\ Len(req[r].written) = 0 =>
                    \/ req[r].result.status = 504
                    \/ req[r].result.kind = "returned")

\* an upstream read is awaited, no byte is written yet, the client is Busy
C30_Witness ==
    /\ req[1].pc = "read"
    /\ req[1].written = <<>>
    /\ req[1].prepared
    /\ req[1].streamer_client # NoClient
    /\ client_states[req[1].streamer_client] = "busy"

\* ------------------------------------------------------------------- C31
\* ------------------------------------------- the web rate limiter, driven
notService == <<allocSide, chunkVars, routeVars, managerVars, fault_limit>>

\* rate_limiter middleware: is_allowed(ip, encoded_id) for a /dl request,
\* with the admissions kept in the history
IsAllowedCall(ip, encoded_id) ==
    /\ \E o \in IsAllowed(limiter, ip, encoded_id, limiter.time) :
          /\ Len(o.lim.admitted) <= MaxAdmitted
          /\ limiter' = [o.lim EXCEPT
                           !.ret = [NoLimiterCall EXCEPT !.op = "is_allowed", !.ip = ip,
                                                         !.allowed = o.allowed]]
    /\ UNCHANGED <<notService, bandwidth, resolves>>

\* the same call, with the request kept in `ret` and no history
IsAllowedRequest(ip, encoded_id) ==
    /\ \E o \in IsAllowed(limiter, ip, encoded_id, limiter.time) :
          limiter' = [o.lim EXCEPT
                        !.admitted = limiter.admitted,
                        !.ret = [op |-> "is_allowed", ip |-> ip,
                                 encoded_id |-> encoded_id, allowed |-> o.allowed]]
    /\ UNCHANGED <<notService, bandwidth, resolves>>

\* cleanup_old_entries
CleanupOldEntries ==
    /\ \E c \in CleanupInternal(limiter, limiter.time) :
          limiter' = [c EXCEPT !.ret = [NoLimiterCall EXCEPT !.op = "cleanup_old_entries"]]
    /\ UNCHANGED <<notService, bandwidth, resolves>>

\* a second passes; the history keeps the admissions that a main window
\* ending now or later can hold
LimiterTick ==
    /\ limiter.time < LimiterMaxTime
    /\ limiter' = [limiter EXCEPT
                     !.time = @ + 1, !.ret = NoLimiterCall,
                     !.admitted = SelectSeq(@, LAMBDA t :
                                      t >= limiter.time + 1 - main_window_seconds)]
    /\ UNCHANGED <<notService, bandwidth, resolves>>

NextLimiter ==
    \/ \E ip \in Ips, encoded_id \in Links \cup {NoLink} : IsAllowedCall(ip, encoded_id)
    \/ CleanupOldEntries
    \/ LimiterTick

SpecLimiter == InitAlloc /\ [][NextLimiter]_vars

NextCoalesce ==
    \/ \E ip \in Ips, encoded_id \in Links \cup {NoLink} : IsAllowedRequest(ip, encoded_id)
    \/ CleanupOldEntries
    \/ LimiterTick

SpecCoalesce == InitAlloc /\ [][NextCoalesce]_vars

\* ------------------------------------------- the bandwidth counter, driven
InitBandwidth ==
    /\ connected = [c \in Clients |-> TRUE]
    /\ now = 0
    /\ AllocInit
    /\ last = NoCall
    /\ ChunkIdle
    /\ ManagerIdle
    /\ req = <<>>
    /\ files = <<>>
    /\ round_robin_index = 0
    /\ faults = 0
    /\ fault_limit = MaxFaults
    /\ loop_time = 0
    /\ limiter = LimiterNew
    /\ resolves = [k \in Resolvers |-> NoResolve]
    /\ \E limit \in {0, BandwidthLimit} : bandwidth = BandwidthNew(limit)

BandwidthCall(b, op, exceeded, queried) ==
    [b EXCEPT !.ret = [op |-> op, exceeded |-> exceeded, queried |-> queried,
                       n |-> 1 - bandwidth.ret.n]]

\* download_route: the bandwidth check of a /dl request
DownloadCheck ==
    /\ LET o == IsBandwidthLimitExceeded(bandwidth)
       IN  bandwidth' = BandwidthCall(o.bw, "is_bandwidth_limit_exceeded",
                                      o.exceeded, o.queried)
    /\ UNCHANGED <<notService, limiter, resolves>>

\* the end of a stream: add_bandwidth_usage(bytes_streamed)
AddUsage(bytes_count) ==
    /\ (IF bandwidth.records[bandwidth.month] = NoRecord THEN 0
        ELSE bandwidth.records[bandwidth.month]) + bytes_count <= MaxUsage
    /\ bandwidth' = BandwidthCall(AddBandwidth(bandwidth, bytes_count),
                                  "add_bandwidth_usage", FALSE, FALSE)
    /\ UNCHANGED <<notService, limiter, resolves>>

\* /api/info (and the bot's /stats): get_current_bandwidth_usage
InfoRequest ==
    /\ bandwidth' = BandwidthCall(GetCurrentBandwidthUsage(bandwidth).bw,
                                  "get_current_bandwidth_usage", FALSE, TRUE)
    /\ UNCHANGED <<notService, limiter, resolves>>

\* the calendar month changes
MonthChange ==
    /\ bandwidth.month < NumMonths
    /\ bandwidth' = [bandwidth EXCEPT !.month = @ + 1, !.ret.op = "none"]
    /\ UNCHANGED <<notService, limiter, resolves>>

\* a second passes
BandwidthTick ==
    /\ bandwidth.time < BandwidthMaxTime
    /\ bandwidth' = [bandwidth EXCEPT !.time = @ + 1, !.ret.op = "none"]
    /\ UNCHANGED <<notService, limiter, resolves>>

NextBandwidth ==
    \/ DownloadCheck
    \/ \E bytes_count \in 1..2 : AddUsage(bytes_count)
    \/ InfoRequest
    \/ MonthChange
    \/ BandwidthTick

\* Download requests keep arriving; nothing makes any other call happen.
SpecBandwidth == InitBandwidth /\ [][NextBandwidth]_vars /\ WF_vars(DownloadCheck)

\* ------------------------------------------- concurrent resolves, driven
\* get_file_properties up to its await of get_messages; a cached id is
\* returned without suspending
ResolveStart(k, message_id) ==
    /\ resolves[k].pc = "idle"
    /\ resolves' = [resolves EXCEPT ![k] =
          IF DictHas(cached_file_ids, message_id)
          THEN [NoResolve EXCEPT !.pc = "done", !.message_id = message_id,
                                 !.file_id = DictGet(cached_file_ids, message_id)]
          ELSE [NoResolve EXCEPT !.pc = "get_messages", !.message_id = message_id]]
    /\ UNCHANGED <<notService, limiter, bandwidth>>

\* get_messages returns: the rest of generate_file_properties and the
\* return of get_file_properties run without suspending
ResolveLookedUp(k, rpc_fails) ==
    /\ resolves[k].pc = "get_messages"
    /\ LET m == resolves[k].message_id
           g == GenerateFileProperties(cached_file_ids, m, rpc_fails)
       IN  /\ cached_file_ids' = g.cache
           /\ resolves' = [resolves EXCEPT ![k] =
                 IF g.err # "none" THEN [@ EXCEPT !.pc = "done", !.err = g.err]
                 ELSE IF DictHas(g.cache, m)
                 THEN [@ EXCEPT !.pc = "done", !.file_id = DictGet(g.cache, m)]
                 ELSE [@ EXCEPT !.pc = "done", !.err = "KeyError"]]
    /\ UNCHANGED <<allocSide, chunkVars, routeVars, pool, called, fault_limit,
                   limiter, bandwidth>>

\* the caller takes the result
ResolveReturn(k) ==
    /\ resolves[k].pc = "done"
    /\ resolves' = [resolves EXCEPT ![k] = NoResolve]
    /\ UNCHANGED <<notService, limiter, bandwidth>>

\* clean_cache, one round, while calls are in flight
CleanCacheDuring ==
    /\ cached_file_ids' = {}
    /\ resolves' = [k \in Resolvers |->
                       IF resolves[k].pc = "get_messages"
                       THEN [resolves[k] EXCEPT !.cleared = TRUE] ELSE resolves[k]]
    /\ UNCHANGED <<allocSide, chunkVars, routeVars, pool, called, fault_limit,
                   limiter, bandwidth>>

NextResolve ==
    \/ \E k \in Resolvers, m \in CacheMessages : ResolveStart(k, m)
    \/ \E k \in Resolvers, rpc_fails \in BOOLEAN : ResolveLookedUp(k, rpc_fails)
    \/ \E k \in Resolvers : ResolveReturn(k)
    \/ CleanCacheDuring

SpecResolve == InitCache /\ [][NextResolve]_vars

\* C31: once a write to the response has failed because the client is gone,
\* the request is at no read, write, fetch or sleep any more: it is closing
\* the response, recording the bandwidth, or over; it ends by returning the
\* response it had begun (no error status, no exception of the route), and
\* when the closing is done the client it streamed with has been released by
\* the finally of the streaming loop, as after a full download.
C31_DisconnectStopsSilently ==
    \A r \in Requests :
        req[r].write_e # "none" =>
            /\ req[r].pc \in {"eof", "bandwidth", "done", "cancelled"}
            /\ req[r].pending = NoExc
            /\ req[r].pc = "done" =>
                   /\ req[r].result.kind = "returned"
                   /\ req[r].result.status = req[r].status_code
                   /\ req[r].result.status \in {200, 206}
            /\ req[r].pc # "eof" =>
                   /\ Len(req[r].released) > 0
                   /\ req[r].released[Len(req[r].released)] = req[r].streamer_client
                   /\ client_tasks[req[r].streamer_client] = NoTask
                   /\ client_states[req[r].streamer_client] # "busy"

\* a download that was cut by the client after its first bytes and is over
C31_Witness ==
    /\ req[1].write_e # "none"
    /\ req[1].pc = "done"
    /\ Len(req[1].written) > 0
    /\ Len(req[1].written) < req[1].until_bytes - req[1].from_bytes + 1

\* ------------------------------------------------------------------- C32
\* The only HTTPInternalServerError raised inside the streaming loop is the
\* one of the PyrogramOffsetInvalid handler; the loop is left with it pending
\* (no further attempt is made).
OffsetInvalidRaised(r) ==
    /\ req[r].pc = "eof"
    /\ req[r].pending = HTTPError(500)

\* C32 as stated: after an invalid-offset error of a read the route leaves
\* the loop with a 500 only if no byte of this response has been written so
\* far; with bytes written it ends the response with no error status.
C32_Raises500OnlyUnwritten ==
    \A r \in Requests : OffsetInvalidRaised(r) => Len(req[r].written) = 0

\* the first read is rejected: the 500 is raised with nothing written
C32_Witness ==
    /\ OffsetInvalidRaised(1)
    /\ req[1].prepared
    /\ req[1].written = <<>>
    /\ req[1].stream_attempt = 0

\* ------------------------------------------------------------------- C33
\* the awaits of a request: the calls it can be suspended at
AwaitPoints == {"new", "get_message", "fallback", "refetch", "prepare", "read", "write",
                "switch", "refresh", "flood_sleep", "retry_sleep", "retry_delay", "eof",
                "bandwidth"}

\* every call the request awaits returns or raises: the request stays at no
\* await for ever
EveryCallReturns(r) == \A p \in AwaitPoints : []<>(req[r].pc # p)

\* the bounds of the three retry loops, by their loop variables: the run of
\* _execute_download_logic is number attempt + 1, the call of
\* stream_file_chunks of the run is number stream_attempt + 1, the try of
\* get_messages of the fetch is number current_retry + 1
RetryBounds(r) ==
    /\ req[r].attempt + 1 <= MAX_RETRIES + 1
    /\ req[r].stream_attempt + 1 <= max_stream_retries + 1
    /\ req[r].current_retry + 1 <= max_retries

\* the core logic is run again only from the retry delay, and the retry delay
\* is only entered on a retryable error: the ConnectionResetError of
\* response.prepare, or a retryable exception that left the streaming loop
RerunOnlyAfterRetryable(r) ==
    /\ req'[r].attempt # req[r].attempt =>
           /\ req[r].pc = "retry_delay"
           /\ req'[r].attempt = req[r].attempt + 1
    /\ (req'[r].pc = "retry_delay" /\ req[r].pc # "retry_delay") =>
           /\ req[r].attempt < MAX_RETRIES
           /\ \/ req[r].pc = "prepare"
              \/ req[r].pc = "eof" /\ IsRetryableError(req[r].pending)

\* C33: a /dl request whose awaited calls all return ends (it is answered, or
\* its task is cancelled); the core logic is run at most MAX_RETRIES + 1 = 3
\* times and only again after a retryable error, a run calls
\* stream_file_chunks at most 3 times whatever mix of failovers and transient
\* errors it meets, and a metadata fetch calls get_messages at most 3 times.
C33_Terminates ==
    /\ [](\A r \in Requests : RetryBounds(r))
    /\ [][\A r \in Requests : RerunOnlyAfterRetryable(r)]_vars
    /\ \A r \in Requests :
          req[r].pc # "off" =>
              (EveryCallReturns(r) => <>(req[r].pc \in {"done", "cancelled"}))

\* the third run of the core logic, after two failures, awaits a read
C33_Witness ==
    /\ req[1].attempt = MAX_RETRIES
    /\ req[1].pc = "read"
    /\ faults >= 2

\* ------------------------------------------------------------------- C34
\* C34: after a sweep (cleanup_stale_states) no status, task or expiry entry
\* is held for a client that is not connected; every connected client whose
\* expiry had passed has no expiry entry and status Idle, so no entry that is
\* left has passed; and for a connected client with no expiry entry, or with
\* one that has not passed, status, task and expiry are as before.
C34_Sweep ==
    [][(last'.op = "cleanup_stale_states" /\ SweepCall) =>
          \A c \in Clients :
              /\ ~connected[c] =>
                     /\ client_states'[c] = "none"
                     /\ client_tasks'[c] = NoTask
                     /\ flood_wait_until'[c] = NoFlood
              /\ (connected[c] /\ flood_wait_until[c] # NoFlood
                               /\ now >= flood_wait_until[c]) =>
                     /\ flood_wait_until'[c] = NoFlood
                     /\ client_states'[c] = "idle"
              /\ flood_wait_until'[c] # NoFlood => now < flood_wait_until'[c]
              /\ (connected[c] /\ (flood_wait_until[c] = NoFlood
                                    \/ now < flood_wait_until[c])) =>
                     /\ client_states'[c] = client_states[c]
                     /\ client_tasks'[c] = client_tasks[c]
                     /\ flood_wait_until'[c] = flood_wait_until[c]]_vars

\* a sweep was made with one client lost, whose entries are gone, and one
\* connected client that keeps its task
C34_Witness ==
    /\ last.op = "cleanup_stale_states"
    /\ \E c \in Clients : ~connected[c] /\ client_states[c] = "none"
    /\ \E c \in Clients : connected[c] /\ client_states[c] = "busy"
    /\ now > 0

\* ------------------------------------------------------------------- C35
\* C35: in every state reached by acquire, release_client,
\* handle_flood_wait_retry and cleanup_stale_states calls in any order (with
\* the clock running and connections lost), a client has status Busy exactly
\* when a task id is recorded for it, and a client with status FloodWait has
\* an expiry entry.
C35_StatusAgreesWithEntries ==
    \A c \in Clients :
        /\ client_states[c] = "busy" <=> client_tasks[c] # NoTask
        /\ client_states[c] = "flood_wait" => flood_wait_until[c] # NoFlood

\* after calls of all four kinds: one client Busy with its task, one client
\* in FloodWait with its expiry, and the step before was a sweep
C35_Witness ==
    /\ last.op = "cleanup_stale_states"
    /\ \E c \in Clients : client_states[c] = "busy" /\ client_tasks[c] # NoTask
    /\ \E c \in Clients : client_states[c] = "flood_wait" /\ flood_wait_until[c] # NoFlood

\* ------------------------------------------------------------------- C36
\* C36 as stated: at every moment of a request whose headers were sent, over
\* all the calls of stream_file_chunks it makes, the bytes written to the
\* response are a prefix of the source bytes from_bytes..until_bytes, so
\* their number is at most the Content-Length declared.
C36_WrittenIsPrefix ==
    \A r \in Requests :
        req[r].prepared =>
            /\ Len(req[r].written) <= req[r].until_bytes - req[r].from_bytes + 1
            /\ req[r].written = SubSeq(SourceBytes(req[r].from_bytes, req[r].until_bytes),
                                       1, Len(req[r].written))

\* the second call of stream_file_chunks of a response writes its first bytes
C36_Witness ==
    /\ req[1].prepared
    /\ req[1].stream_attempt = 1
    /\ req[1].pc = "read"
    /\ req[1].current_part = 2
    /\ Len(req[1].written) > 0

\* sessions of the watched ip admitted in the main window that ends at t
AdmittedInWindow(t) ==
    Cardinality({i \in 1..Len(limiter.admitted) :
                    /\ limiter.admitted[i] >= t - main_window_seconds
                    /\ limiter.admitted[i] <= t})

\* the last step was is_allowed and it denied the request
DeniedAddsNothing ==
    (limiter'.ret.op = "is_allowed" /\ ~limiter'.ret.allowed)
        => /\ limiter'.admitted = limiter.admitted
           /\ \A ip \in Ips :
                 Len(limiter'.download_starts[ip]) <= Len(limiter.download_starts[ip])
           /\ \A key \in PartKeys :
                 limiter.active_download_parts[key] = NoExpiry
                     => limiter'.active_download_parts[key] = NoExpiry

\* C37: for every ip (here the watched one) and every time t, at most max_download_sessions requests
\* of that ip are admitted as new download sessions in the main window ending
\* at t, whatever is_allowed and cleanup calls are made; and a denied request
\* adds no entry.
C37_Quota ==
    /\ [](\A t \in 0..limiter.time : AdmittedInWindow(t) <= max_download_sessions)
    /\ [][DeniedAddsNothing]_vars

\* an ip at its quota is denied a new session
C37_Witness ==
    /\ limiter.ret.op = "is_allowed"
    /\ ~limiter.ret.allowed
    /\ limiter.ret.ip = WatchedIp
    /\ AdmittedInWindow(limiter.time) = max_download_sessions

\* the request of the last step found an unexpired entry for its pair
ArrivedUnexpired ==
    /\ limiter'.ret.op = "is_allowed"
    /\ limiter'.ret.encoded_id # NoLink
    /\ limiter.active_download_parts[<<limiter'.ret.ip, limiter'.ret.encoded_id>>]
           > limiter.time

\* the request of the last step found an expired entry for its pair
ArrivedExpired ==
    /\ limiter'.ret.op = "is_allowed"
    /\ limiter'.ret.encoded_id # NoLink
    /\ LET expiry == limiter.active_download_parts[<<limiter'.ret.ip,
                                                     limiter'.ret.encoded_id>>]
       IN  expiry # NoExpiry /\ expiry <= limiter.time

\* the request of the last step was counted as a new session: it was admitted
\* with a new session start, or refused with the ip at its limit
CountedAsNew ==
    LET ip == limiter'.ret.ip
        starts == limiter'.download_starts[ip]
    IN  IF limiter'.ret.allowed
        THEN /\ Len(starts) > 0
             /\ starts[Len(starts)] = limiter.time
             /\ Len(starts) <= max_download_sessions
             /\ limiter'.active_download_parts[<<ip, limiter'.ret.encoded_id>>]
                    = limiter.time + download_session_window_seconds
        ELSE /\ Len(starts) = max_download_sessions
             /\ limiter'.active_download_parts[<<ip, limiter'.ret.encoded_id>>]
                    = NoExpiry

\* C38: a request for (ip, encoded_id) that arrives while the pair's entry is
\* unexpired is allowed, leaves the ip's session starts unchanged and moves the
\* pair's expiry to now + download_session_window_seconds; a request that
\* arrives after the entry has expired is counted as a new session.
C38_Coalescing ==
    [][/\ ArrivedUnexpired =>
             /\ limiter'.ret.allowed
             /\ limiter'.download_starts[limiter'.ret.ip]
                    = limiter.download_starts[limiter'.ret.ip]
             /\ limiter'.active_download_parts[<<limiter'.ret.ip,
                                                 limiter'.ret.encoded_id>>]
                    = limiter.time + download_session_window_seconds
       /\ ArrivedExpired => CountedAsNew]_vars

\* a request was coalesced for an ip that is at its new-session limit
C38_Witness ==
    /\ limiter.ret.op = "is_allowed"
    /\ limiter.ret.allowed
    /\ limiter.ret.encoded_id # NoLink
    /\ Len(limiter.download_starts[limiter.ret.ip]) = max_download_sessions
    /\ \A i \in 1..max_download_sessions :
          limiter.download_starts[limiter.ret.ip][i] < limiter.time
    /\ limiter.active_download_parts[<<limiter.ret.ip, limiter.ret.encoded_id>>]
           = limiter.time + download_session_window_seconds

\* the step is a call of is_bandwidth_limit_exceeded
IsDownloadCheck ==
    /\ bandwidth'.ret.op = "is_bandwidth_limit_exceeded"
    /\ bandwidth'.ret.n # bandwidth.ret.n

\* the usage recorded for the current month is below the limit
BelowCap ==
    \/ bandwidth.records[bandwidth.month] = NoRecord
    \/ GbUsed(bandwidth.records[bandwidth.month]) < bandwidth.BANDWIDTH_LIMIT_GB

\* the cached status says the limit is reached, with a positive limit
StatusCached == bandwidth.BANDWIDTH_LIMIT_GB > 0 /\ bandwidth._bandwidth_limit_reached

\* the last download request passed the bandwidth check
DownloadAdmitted ==
    bandwidth.ret.op = "is_bandwidth_limit_exceeded" /\ ~bandwidth.ret.exceeded

\* C39: once is_bandwidth_limit_exceeded has returned True with a positive
\* limit, every later call returns True until the cached status is reset; and
\* when the month has changed, so that the usage of the current month is below
\* the limit, the cached status is reset and a download request is admitted,
\* even when download requests are the only calls that keep arriving.
C39_MonthlyCap ==
    /\ [][(StatusCached /\ IsDownloadCheck) => bandwidth'.ret.exceeded]_vars
    /\ (StatusCached /\ BelowCap) ~> (DownloadAdmitted \/ ~BelowCap)

\* a download request of a new month, with nothing used in it, is refused
C39_Witness ==
    /\ bandwidth.month > 1
    /\ bandwidth.records[bandwidth.month] = NoRecord
    /\ bandwidth.ret.op = "is_bandwidth_limit_exceeded"
    /\ bandwidth.ret.exceeded
    /\ ~bandwidth.ret.queried

\* C40: whenever clean_cache clears the dict while get_file_properties calls
\* are in flight on the connection, a call that completes its lookup neither
\* fails with a missing-entry error nor returns the descriptor of another
\* message: it returns the descriptor it just stored, that of its message.
C40_ResolveSurvivesClear ==
    /\ [](\A k \in Resolvers :
             resolves[k].pc = "done" =>
                 /\ resolves[k].err # "KeyError"
                 /\ resolves[k].err = "none" =>
                        resolves[k].file_id.message_id = resolves[k].message_id)
    /\ [][\A k \in Resolvers :
             (/\ resolves[k].pc = "get_messages"
              /\ resolves'[k].pc = "done"
              /\ resolves'[k].err = "none")
                 => /\ DictHas(cached_file_ids', resolves[k].message_id)
                    /\ DictGet(cached_file_ids', resolves[k].message_id)
                           = resolves'[k].file_id]_vars

\* a lookup completed although the cache was cleared while it waited, with
\* another call in flight
C40_Witness ==
    \E k, j \in Resolvers :
        /\ k # j
        /\ resolves[k].pc = "done"
        /\ resolves[k].cleared
        /\ resolves[k].err = "none"
        /\ resolves[j].pc = "get_messages"
        /\ resolves[j].cleared

====
